---- MODULE Spec2Model ----
(***************************************************************************)
(* A model of the core of sn_routing:                                      *)
(*   - the delivery-group send of the communication fabric                 *)
(*     (src/src/node/stage/comm.rs: Comm::send_message_to_targets and the  *)
(*     SendState helper), and the conversion of its SendStatus;            *)
(*   - the Block / Vote / Proof consensus accumulator                      *)
(*     (src/src/node.rs, src/src/vote.rs).                                 *)
(* Each component has its own specification (SendSpec, BlockSpec); the     *)
(* variables of the other component stay parked at their initial value.    *)
(***************************************************************************)
EXTENDS Integers, Sequences, FiniteSets, TLC

\* ------------------------------------------------------------------------
\* Bounds of the model
\* ------------------------------------------------------------------------

\* Number of distinct socket addresses
MaxAddr == 3

\* Longest recipients list passed to send_message_to_targets
MaxLen == 3

\* Largest delivery_group_size passed to send_message_to_targets
MaxGroup == 2

\* Number of key pairs (secret key k belongs to public key k)
MaxKey == 2

\* Number of distinct payload digests
MaxPayload == 2

\* Largest peer age of the model (ages are 0..MaxAge)
MaxAge == 1

\* check is given signatures with up to MaxZeroBytes leading zero bytes
MaxZeroBytes == 8

\* check is given the ages 0..MaxCheckAge, besides those around 64 and 255
MaxCheckAge == 16

\* select is given the members 1..MaxMember
MaxMember == 2

\* The number of concurrent Inner::send calls
MaxSender == 2

\* The number of peer addresses that Inner::send is called with
MaxPeer == 2

\* The number of state-mutating commands handled after construction
MaxHandled == 2

\* ------------------------------------------------------------------------
\* Program constants
\* ------------------------------------------------------------------------

\* comm.rs:23  pub const RESEND_MAX_ATTEMPTS: u8 = 3;
RESEND_MAX_ATTEMPTS == 3

\* Width of Recipient::attempt (u8)
U8Modulus == 256

Addrs == 1..MaxAddr

\* The recipients lists a caller may pass: any slice of addresses, repeated
\* addresses included (the signature is recipients: &[SocketAddr]).
RecipientLists == UNION {[1..n -> Addrs] : n \in 0..MaxLen}

Range(s) == {s[i] : i \in DOMAIN s}

NoDuplicates(s) == \A i, j \in DOMAIN s : s[i] = s[j] => i = j

VARIABLES
    targets,      \* the recipients argument of the call
    g,            \* the delivery_group_size argument of the call
    recipients,   \* SendState::recipients : Vec<Recipient>
    remaining,    \* SendState::remaining
    tasks,        \* the FuturesUnordered: number of pending send tasks per address
    pc,           \* "loop" (in the loop), "done" (returned), "converted"
    status,       \* the SendStatus returned
    result,       \* Result<(), Error> made from the SendStatus
    sends,        \* history: number of sends dispatched per address
    successes,    \* history: number of sends that completed with Ok
    failures,     \* history: number of sends that completed with Err
    got,          \* history: addresses that received the message
    everFailed,   \* history: addresses a send to which has failed
    blk,          \* the Block under accumulation (NoBlock before Block::new)
    blockOp,      \* history: the last Block operation, its argument and result
    curVote,      \* the Vote at hand (NoVote before one is made or received)
    voteOp,       \* history: the last Vote operation, its argument and result
    reloc         \* the last call of a relocation function: arguments and result

sendVars == <<targets, g, recipients, remaining, tasks, pc, status, result,
              sends, successes, failures, got, everFailed>>

blockVars == <<blk, blockOp>>

voteVars == <<curVote, voteOp>>

relocVars == <<reloc>>

VARIABLES
    node_conns,   \* Inner::node_conns : the LruCache, address -> connection
    lock,         \* the holder of the Mutex around node_conns
    sender,       \* each Inner::send call: its position and its locals
    connections   \* the number of connections made so far

connVars == <<node_conns, lock, sender, connections>>

VARIABLES
    config_first, \* Config::first
    construction, \* Routing::new: the steps done and its result
    events,       \* what was sent on event_tx, in order, and by whom
    state,        \* the node state behind Stage::state
    stateLock,    \* the holder of the Mutex around the state
    handler,      \* the command handler: its position and what it writes
    reader,       \* a call of a state-reading method of the Routing handle
    held          \* history: the states the node has held between handlers

routingVars == <<config_first, construction, events, state, stateLock, handler,
                 reader, held>>

vars == <<sendVars, blockVars, voteVars, relocVars, connVars, routingVars>>

\* ------------------------------------------------------------------------
\* SendState (comm.rs:198-283)
\* ------------------------------------------------------------------------

NoStatus == [remaining |-> 0, failed_recipients |-> <<>>, set |-> FALSE]

\* SendState::new
SendState_new(recips, size) ==
    [recipients |-> [i \in DOMAIN recips |->
                        [addr |-> recips[i], sending |-> FALSE, attempt |-> 0]],
     remaining  |-> size]

\* number of recipients with sending == true
Active(rs) == Cardinality({i \in DOMAIN rs : rs[i].sending})

\* the filter of SendState::next
Idle(rs) ==
    {i \in DOMAIN rs : ~rs[i].sending /\ rs[i].attempt < RESEND_MAX_ATTEMPTS}

\* The mutant of MinByAttempt that takes the first candidate
MinByAttempt_First(rs, cand) ==
    IF cand = {} THEN 0
    ELSE CHOOSE i \in cand : \A j \in cand : i <= j

\* Iterator::min_by_key: the first element of minimal key; 0 stands for None
MinByAttempt(rs, cand) ==
    IF cand = {} THEN 0
    ELSE CHOOSE i \in cand :
            \A j \in cand : \/ rs[i].attempt < rs[j].attempt
                            \/ (rs[i].attempt = rs[j].attempt /\ i <= j)

\* The mutant of SendState_next that does not look at the active count
SendState_next_NoActiveCheck(rs, rem) ==
    LET i == MinByAttempt(rs, Idle(rs)) IN
    IF i = 0
    THEN [some |-> FALSE, addr |-> 0, recipients |-> rs]
    ELSE [some |-> TRUE, addr |-> rs[i].addr,
          recipients |-> [rs EXCEPT ![i] =
                [@ EXCEPT !.attempt = (@ + 1) % U8Modulus, !.sending = TRUE]]]

\* The mutant of SendState_next that does not stop at RESEND_MAX_ATTEMPTS
SendState_next_NoAttemptLimit(rs, rem) ==
    LET i == MinByAttempt(rs, {k \in DOMAIN rs : ~rs[k].sending}) IN
    IF Active(rs) >= rem \/ i = 0
    THEN [some |-> FALSE, addr |-> 0, recipients |-> rs]
    ELSE [some |-> TRUE, addr |-> rs[i].addr,
          recipients |-> [rs EXCEPT ![i] =
                [@ EXCEPT !.attempt = (@ + 1) % U8Modulus, !.sending = TRUE]]]

\* SendState::next: the next recipient to send to, and the state after the call
SendState_next(rs, rem) ==
    LET i == MinByAttempt(rs, Idle(rs)) IN
    IF Active(rs) >= rem \/ i = 0
    THEN [some |-> FALSE, addr |-> 0, recipients |-> rs]
    ELSE [some |-> TRUE, addr |-> rs[i].addr,
          recipients |-> [rs EXCEPT ![i] =
                [@ EXCEPT !.attempt = (@ + 1) % U8Modulus, !.sending = TRUE]]]

\* Iterator::find / Iterator::position: the first index whose addr matches, or 0
Position(rs, addr) ==
    IF \E i \in DOMAIN rs : rs[i].addr = addr
    THEN CHOOSE i \in DOMAIN rs :
            /\ rs[i].addr = addr
            /\ \A j \in DOMAIN rs : rs[j].addr = addr => i <= j
    ELSE 0

\* SendState::failure
SendState_failure(rs, addr) ==
    LET i == Position(rs, addr) IN
    IF i = 0 THEN rs ELSE [rs EXCEPT ![i] = [@ EXCEPT !.sending = FALSE]]

\* Vec::swap_remove: the last element takes the place of the removed one
SwapRemove(rs, i) ==
    LET n == Len(rs) IN
    [k \in 1..(n - 1) |-> IF k = i THEN rs[n] ELSE rs[k]]

\* The mutant of SendState_success that forgets to count the success
SendState_success_NoDecrement(rs, rem, addr) ==
    LET i == Position(rs, addr) IN
    IF i = 0 THEN [recipients |-> rs, remaining |-> rem]
    ELSE [recipients |-> SwapRemove(rs, i), remaining |-> rem]

\* SendState::success.  remaining is a usize: `remaining -= 1` at 0 panics in
\* a debug build and wraps in a release build; the model keeps the
\* mathematical value, so an underflow shows as a negative remaining.
SendState_success(rs, rem, addr) ==
    LET i == Position(rs, addr) IN
    IF i = 0 THEN [recipients |-> rs, remaining |-> rem]
    ELSE [recipients |-> SwapRemove(rs, i), remaining |-> rem - 1]

\* Iterator::filter(..).map(..).collect() of SendState::finish, in list order
RECURSIVE FailedAddrs(_)
FailedAddrs(rs) ==
    IF rs = <<>> THEN <<>>
    ELSE LET r == Head(rs) IN
         (IF ~r.sending /\ r.attempt >= RESEND_MAX_ATTEMPTS
          THEN <<r.addr>> ELSE <<>>) \o FailedAddrs(Tail(rs))

\* SendState::finish
SendState_finish(rs, rem) ==
    [remaining |-> rem, failed_recipients |-> FailedAddrs(rs), set |-> TRUE]

\* The mutant of SendStatus_into_result that also looks at failed_recipients
SendStatus_into_result_AnyFailure(st) ==
    IF st.remaining = 0 /\ st.failed_recipients = <<>>
    THEN "Ok" ELSE "FailedSend"

\* impl From<SendStatus> for Result<(), Error>
SendStatus_into_result(st) ==
    IF st.remaining = 0 THEN "Ok" ELSE "FailedSend"

\* ------------------------------------------------------------------------
\* Comm::send_message_to_targets (comm.rs:84-140)
\* ------------------------------------------------------------------------

InFlight == LET RECURSIVE Sum(_)
                Sum(S) == IF S = {} THEN 0
                          ELSE LET a == CHOOSE x \in S : TRUE
                               IN tasks[a] + Sum(S \ {a})
            IN Sum(Addrs)

TotalSends == LET RECURSIVE Sum(_)
                  Sum(S) == IF S = {} THEN 0
                            ELSE LET a == CHOOSE x \in S : TRUE
                                 IN sends[a] + Sum(S \ {a})
              IN Sum(Addrs)

\* The call starts: SendState::new and an empty FuturesUnordered
InitSend ==
    /\ targets \in RecipientLists
    /\ g \in 0..MaxGroup
    /\ recipients = SendState_new(targets, g).recipients
    /\ remaining = SendState_new(targets, g).remaining
    /\ tasks = [a \in Addrs |-> 0]
    /\ pc = "loop"
    /\ status = NoStatus
    /\ result = "none"
    /\ sends = [a \in Addrs |-> 0]
    /\ successes = 0
    /\ failures = 0
    /\ got = {}
    /\ everFailed = {}

\* while let Some(addr) = state.next() { tasks.push(send(addr)) }
Dispatch ==
    /\ pc = "loop"
    /\ LET n == SendState_next(recipients, remaining) IN
        /\ n.some
        /\ recipients' = n.recipients
        /\ tasks' = [tasks EXCEPT ![n.addr] = @ + 1]
        /\ sends' = [sends EXCEPT ![n.addr] = @ + 1]
    /\ UNCHANGED <<targets, g, remaining, pc, status, result, successes,
                   failures, got, everFailed>>
    /\ UNCHANGED <<blockVars, voteVars, relocVars, connVars, routingVars>>

\* tasks.next().await yields (addr, Ok(_)): state.success(&addr)
TaskSuccess ==
    /\ pc = "loop"
    /\ ~SendState_next(recipients, remaining).some
    /\ \E a \in Addrs :
        /\ tasks[a] > 0
        /\ tasks' = [tasks EXCEPT ![a] = @ - 1]
        /\ LET s == SendState_success(recipients, remaining, a) IN
            /\ recipients' = s.recipients
            /\ remaining' = s.remaining
        /\ got' = got \cup {a}
    /\ successes' = successes + 1
    /\ UNCHANGED <<targets, g, pc, status, result, sends, failures, everFailed>>
    /\ UNCHANGED <<blockVars, voteVars, relocVars, connVars, routingVars>>

\* tasks.next().await yields (addr, Err(err)): state.failure(&addr)
TaskFailure ==
    /\ pc = "loop"
    /\ ~SendState_next(recipients, remaining).some
    /\ \E a \in Addrs :
        /\ tasks[a] > 0
        /\ tasks' = [tasks EXCEPT ![a] = @ - 1]
        /\ recipients' = SendState_failure(recipients, a)
        /\ everFailed' = everFailed \cup {a}
    /\ failures' = failures + 1
    /\ UNCHANGED <<targets, g, remaining, pc, status, result, sends,
                   successes, got>>
    /\ UNCHANGED <<blockVars, voteVars, relocVars, connVars, routingVars>>

\* tasks.next().await yields None: break; state.finish()
Finish ==
    /\ pc = "loop"
    /\ ~SendState_next(recipients, remaining).some
    /\ \A a \in Addrs : tasks[a] = 0
    /\ status' = SendState_finish(recipients, remaining)
    /\ pc' = "done"
    /\ UNCHANGED <<targets, g, recipients, remaining, tasks, result, sends,
                   successes, failures, got, everFailed>>
    /\ UNCHANGED <<blockVars, voteVars, relocVars, connVars, routingVars>>

\* The caller turns the SendStatus into a Result
IntoResult ==
    /\ pc = "done"
    /\ result' = SendStatus_into_result(status)
    /\ pc' = "converted"
    /\ UNCHANGED <<targets, g, recipients, remaining, tasks, status, sends,
                   successes, failures, got, everFailed>>
    /\ UNCHANGED <<blockVars, voteVars, relocVars, connVars, routingVars>>

\* ------------------------------------------------------------------------
\* Signatures, votes and proofs (vote.rs; proof.rs and peer_id.rs are not
\* part of the sources and are modelled from the specification)
\* ------------------------------------------------------------------------

Keys == 1..MaxKey

Payloads == 1..MaxPayload

Ages == 0..MaxAge

\* A payload of a type whose serialisation fails
Unserialisable == 0

\* serialisation::serialise: Ok(bytes), a deterministic and injective byte
\* layout, or Err for a payload that cannot be serialised
serialise(payload) ==
    IF payload = Unserialisable
    THEN [ok |-> FALSE, data |-> <<>>]
    ELSE [ok |-> TRUE, data |-> <<"bytes", payload>>]

\* Every value that can stand where a Signature is expected: the signature
\* of some key over some bytes (a signature of something else, or by someone
\* else, is how a forged or corrupted signature shows).
Signatures == [signer : Keys, data : {serialise(x).data : x \in Payloads}]

\* sign::sign_detached
sign_detached(data, secret_key) == [signer |-> secret_key, data |-> data]

\* sign::verify_detached
verify_detached(sig, data, pub_key) == sig.signer = pub_key /\ sig.data = data

\* PeerId::new
PeerId_new(age, pub_key) == [age |-> age, pub_key |-> pub_key]

PeerIds == [age : Ages, pub_key : Keys]

Votes == [payload : Payloads, signature : Signatures]

Proofs == [peer_id : PeerIds, sig : Signatures]

\* The payloads of a Vote<T>: T need not be a type that always serialises
VotePayloads == Payloads \cup {Unserialisable}

\* Every Vote value: the struct is Deserialize, so a vote read from a
\* message carries any payload with any signature
VoteValues == [payload : VotePayloads, signature : Signatures]

\* Vote::new: Ok(Vote), or the error of serialise (the `?` of vote.rs:37)
Vote_new(secret_key, payload) ==
    LET data == serialise(payload) IN
    IF ~data.ok
    THEN [ok |-> FALSE, vote |-> [payload |-> payload, signature |-> 0]]
    ELSE [ok |-> TRUE,
          vote |-> [payload |-> payload,
                    signature |-> sign_detached(data.data, secret_key)]]

\* The mutant of Vote_validate_signature that accepts any key
Vote_validate_signature_AnyKey(vote, peer_id) ==
    LET data == serialise(vote.payload) IN
    IF data.ok THEN vote.signature.data = data.data ELSE FALSE

\* Vote::validate_signature
Vote_validate_signature(vote, peer_id) ==
    LET data == serialise(vote.payload) IN
    IF data.ok
    THEN verify_detached(vote.signature, data.data, peer_id.pub_key)
    ELSE FALSE

\* The mutant of Vote_proof that builds the proof without validating the vote
Vote_proof_NoValidate(vote, peer_id) ==
    [ok |-> TRUE, proof |-> [peer_id |-> peer_id, sig |-> vote.signature]]

\* Vote::proof: Ok(Proof) or Err(FailedSignature)
Vote_proof(vote, peer_id) ==
    IF Vote_validate_signature(vote, peer_id)
    THEN [ok |-> TRUE, proof |-> [peer_id |-> peer_id, sig |-> vote.signature]]
    ELSE [ok |-> FALSE, proof |-> [peer_id |-> peer_id, sig |-> vote.signature]]

\* Proof::new(pub_key, age, vote)
Proof_new(pub_key, age, vote) == Vote_proof(vote, PeerId_new(age, pub_key))

\* Proof::validate_signature(payload)
Proof_validate_signature(proof, payload) ==
    LET data == serialise(payload) IN
    IF data.ok
    THEN verify_detached(proof.sig, data.data, proof.peer_id.pub_key)
    ELSE FALSE

\* Proof::key
Proof_key(proof) == proof.peer_id.pub_key

\* Proof::age
Proof_age(proof) == proof.peer_id.age

\* Equality of proofs as members of a HashSet<Proof>: by peer_id
Proof_eq(p, q) == p.peer_id = q.peer_id

\* HashSet::insert: the set afterwards, and whether the value was new
HashSet_insert(set, p) ==
    IF \E q \in set : Proof_eq(p, q)
    THEN [inserted |-> FALSE, set |-> set]
    ELSE [inserted |-> TRUE, set |-> set \cup {p}]

\* ------------------------------------------------------------------------
\* Block (node.rs:45-123)
\* ------------------------------------------------------------------------

NoBlock == [payload |-> 0, proofs |-> {}, some |-> FALSE]

NoOp == [name |-> "none", ok |-> TRUE]

\* Block::new: Ok(Block) or Err(FailedSignature)
\* The mutant of Block_new that does not validate the vote's signature
Block_new_NoValidate(vote, pub_key, age) ==
    [ok |-> TRUE,
     block |-> [payload |-> vote.payload,
                proofs |-> {[peer_id |-> PeerId_new(age, pub_key), sig |-> vote.signature]},
                some |-> TRUE]]

Block_new(vote, pub_key, age) ==
    LET peer_id == PeerId_new(age, pub_key)
        proof   == Proof_new(pub_key, age, vote)
        ins     == HashSet_insert({}, proof.proof)
    IN IF ~Vote_validate_signature(vote, peer_id) THEN [ok |-> FALSE, block |-> NoBlock]
       ELSE IF ~proof.ok THEN [ok |-> FALSE, block |-> NoBlock]
       ELSE IF ~ins.inserted THEN [ok |-> FALSE, block |-> NoBlock]
       ELSE [ok |-> TRUE,
             block |-> [payload |-> vote.payload, proofs |-> ins.set, some |-> TRUE]]

\* The mutant of Block_add_proof that inserts without validating the signature
Block_add_proof_NoValidate(b, proof) ==
    LET ins == HashSet_insert(b.proofs, proof) IN
    IF ins.inserted THEN [ok |-> TRUE, block |-> [b EXCEPT !.proofs = ins.set]]
    ELSE [ok |-> FALSE, block |-> b]

\* Block::add_proof: Ok(()) or Err(FailedSignature), and the block afterwards
Block_add_proof(b, proof) ==
    LET ins == HashSet_insert(b.proofs, proof) IN
    IF ~Proof_validate_signature(proof, b.payload) THEN [ok |-> FALSE, block |-> b]
    ELSE IF ins.inserted THEN [ok |-> TRUE, block |-> [b EXCEPT !.proofs = ins.set]]
    ELSE [ok |-> FALSE, block |-> b]

\* Block::remove_proof
Block_remove_proof(b, pub_key) ==
    [b EXCEPT !.proofs = {p \in b.proofs : Proof_key(p) # pub_key}]

\* The mutant of Block_prune_proofs_except that keeps the proofs of the
\* other keys
Block_prune_proofs_except_KeepsOthers(b, keys) ==
    [b EXCEPT !.proofs = {p \in b.proofs : Proof_key(p) \notin keys}]

\* Block::prune_proofs_except
Block_prune_proofs_except(b, keys) ==
    [b EXCEPT !.proofs = {p \in b.proofs : Proof_key(p) \in keys}]

\* Block::total_proofs
Block_total_proofs(b) == Cardinality(b.proofs)

\* node.rs:106-110: fold over the stored proofs, adding each proof's age
RECURSIVE FoldAge(_, _)
FoldAge(proofs, total) ==
    IF proofs = {} THEN total
    ELSE LET proof == CHOOSE q \in proofs : TRUE
         IN  FoldAge(proofs \ {proof}, total + Proof_age(proof))

Block_total_proofs_age(b) == FoldAge(b.proofs, 0)

InitBlock ==
    /\ blk = NoBlock
    /\ blockOp = NoOp

\* Block::new(&vote, &pub_key, age) with a vote received from a peer
BlockNew ==
    /\ ~blk.some
    /\ \E vote \in Votes, pub_key \in Keys, age \in Ages :
        LET r == Block_new(vote, pub_key, age) IN
        /\ blk' = r.block
        /\ blockOp' = [name |-> "new", ok |-> r.ok, vote |-> vote,
                       pub_key |-> pub_key, age |-> age]
    /\ UNCHANGED <<sendVars, voteVars, relocVars, connVars, routingVars>>

\* block.add_proof(proof) with a proof received from a peer
AddProof ==
    /\ blk.some
    /\ \E proof \in Proofs :
        LET r == Block_add_proof(blk, proof) IN
        /\ blk' = r.block
        /\ blockOp' = [name |-> "add_proof", ok |-> r.ok, proof |-> proof]
    /\ UNCHANGED <<sendVars, voteVars, relocVars, connVars, routingVars>>

\* block.remove_proof(&pub_key)
RemoveProof ==
    /\ blk.some
    /\ \E pub_key \in Keys :
        /\ blk' = Block_remove_proof(blk, pub_key)
        /\ blockOp' = [name |-> "remove_proof", ok |-> TRUE, pub_key |-> pub_key]
    /\ UNCHANGED <<sendVars, voteVars, relocVars, connVars, routingVars>>

\* block.prune_proofs_except(&keys)
PruneProofs ==
    /\ blk.some
    /\ \E keys \in SUBSET Keys :
        /\ blk' = Block_prune_proofs_except(blk, keys)
        /\ blockOp' = [name |-> "prune_proofs_except", ok |-> TRUE, keys |-> keys]
    /\ UNCHANGED <<sendVars, voteVars, relocVars, connVars, routingVars>>

\* ------------------------------------------------------------------------
\* Vote (vote.rs:29-71)
\* ------------------------------------------------------------------------

\* curVote.made_by is history: the secret key Vote::new signed with, 0 for
\* a vote that was received
NoVote == [payload |-> 0, signature |-> 0, some |-> FALSE, made_by |-> 0]

InitVote ==
    /\ curVote = NoVote
    /\ voteOp = NoOp

\* Vote::new(&secret_key, payload)
VoteNew ==
    /\ \E secret_key \in Keys, payload \in VotePayloads :
        LET r == Vote_new(secret_key, payload) IN
        /\ curVote' = IF r.ok
                      THEN [payload |-> r.vote.payload, signature |-> r.vote.signature,
                            some |-> TRUE, made_by |-> secret_key]
                      ELSE NoVote
        /\ voteOp' = [name |-> "new", ok |-> r.ok, secret_key |-> secret_key,
                      payload |-> payload]
    /\ UNCHANGED <<sendVars, blockVars, relocVars, connVars, routingVars>>

\* A vote deserialised from a peer's message (vote.rs:29, Deserialize)
VoteReceive ==
    /\ \E v \in VoteValues :
        curVote' = [payload |-> v.payload, signature |-> v.signature,
                    some |-> TRUE, made_by |-> 0]
    /\ voteOp' = [name |-> "receive", ok |-> TRUE]
    /\ UNCHANGED <<sendVars, blockVars, relocVars, connVars, routingVars>>

\* vote.validate_signature(&peer_id)
VoteValidateSignature ==
    /\ curVote.some
    /\ \E peer_id \in PeerIds :
        voteOp' = [name |-> "validate_signature",
                   ok |-> Vote_validate_signature(curVote, peer_id),
                   peer_id |-> peer_id]
    /\ UNCHANGED curVote
    /\ UNCHANGED <<sendVars, blockVars, relocVars, connVars, routingVars>>

\* vote.proof(&peer_id)
VoteProof ==
    /\ curVote.some
    /\ \E peer_id \in PeerIds :
        LET r == Vote_proof(curVote, peer_id) IN
        voteOp' = [name |-> "proof", ok |-> r.ok, peer_id |-> peer_id,
                   proof |-> r.proof]
    /\ UNCHANGED curVote
    /\ UNCHANGED <<sendVars, blockVars, relocVars, connVars, routingVars>>

\* ------------------------------------------------------------------------
\* Relocation (relocation.rs:25-92)
\* ------------------------------------------------------------------------

\* The width of u64 in bits and in bytes
U64_BITS == 64

U64_BYTES == 8

\* The length of bls::Signature::to_bytes(): 96 bytes normally, 4 bytes with
\* the mock feature (relocation.rs:40-41)
SIG_SIZE == 96

MOCK_SIG_SIZE == 4

\* The length of a XorName in bytes
XOR_NAME_LEN == 32

U8_MAX == 255

\* 2^n for the small n of bit positions
RECURSIVE Pow2(_)
Pow2(n) == IF n = 0 THEN 1 ELSE 2 * Pow2(n - 1)

\* Bit i (from 0, least significant first) of a byte or of a limb
BitOf(word, i) == (word \div Pow2(i)) % 2

\* A sequence given as a function, with its elements computed once
Evaluated(f) == SubSeq(f, 1, Len(f))

\* A u64 does not fit the integers of the model checker: it is kept as
\* four limbs of 16 bits, least significant limb first
LIMB_BITS == 16

U64_LIMBS == U64_BITS \div LIMB_BITS

LimbBase == Pow2(LIMB_BITS)

U64_ZERO == [k \in 1..U64_LIMBS |-> 0]

U64_ONE == [k \in 1..U64_LIMBS |-> IF k = 1 THEN 1 ELSE 0]

U64_MAX == [k \in 1..U64_LIMBS |-> LimbBase - 1]

\* u64::from_le_bytes: byte n (from 0) weighs 256^n, so limb k (from 1)
\* holds bytes 2k-2 and 2k-1
u64_from_le_bytes(dst) ==
    Evaluated([k \in 1..U64_LIMBS |-> dst[2 * k - 1] + 256 * dst[2 * k]])

\* Bit i (from 1, least significant first) of a u64
U64Bit(x, i) == BitOf(x[((i - 1) \div LIMB_BITS) + 1], (i - 1) % LIMB_BITS)

\* a >= b for two limb sequences of one length: equal, or a is greater at
\* the most significant limb where they differ
LimbsGE(a, b) ==
    \/ \A i \in 1..Len(a) : a[i] = b[i]
    \/ \E i \in 1..Len(a) :
            /\ a[i] > b[i]
            /\ \A j \in (i + 1)..Len(a) : a[j] = b[j]

\* The borrow into limb i of a - b: below i, b is greater at the most
\* significant limb where the two differ
Borrow(a, b, i) ==
    \E j \in 1..(i - 1) :
        /\ a[j] < b[j]
        /\ \A k \in (j + 1)..(i - 1) : a[k] = b[k]

\* a - b for a >= b
LimbsSub(a, b) ==
    Evaluated([i \in 1..Len(a) |->
        (a[i] - b[i] - (IF Borrow(a, b, i) THEN 1 ELSE 0)) % LimbBase])

\* 2 * a + bit, the top carry dropped
LimbsDouble(a, bit) ==
    Evaluated([i \in 1..Len(a) |->
        ((2 * a[i]) % LimbBase)
        + (IF i = 1 THEN bit ELSE (2 * a[i - 1]) \div LimbBase)])

\* The remainder of long division: the bits of x enter r from the most
\* significant one, and r loses m when it reaches it. r has one limb more
\* than a u64 so that doubling loses no bit
RECURSIVE RemFrom(_, _, _, _)
RemFrom(x, m, i, r) ==
    IF i = 0 THEN SubSeq(r, 1, U64_LIMBS)
    ELSE LET shifted == LimbsDouble(r, U64Bit(x, i))
             wide_m  == m \o <<0>>
         IN  IF LimbsGE(shifted, wide_m)
             THEN RemFrom(x, m, i - 1, LimbsSub(shifted, wide_m))
             ELSE RemFrom(x, m, i - 1, shifted)

\* x % m on u64, m # 0
u64_rem(x, m) == RemFrom(x, m, U64_BITS, U64_ZERO \o <<0>>)

\* u64::saturating_pow for the base 2: exp doublings, each one a checked
\* multiplication; on overflow the result is u64::MAX
RECURSIVE SaturatingDoublings(_, _)
SaturatingDoublings(acc, exp) ==
    IF exp = 0 THEN acc
    ELSE IF U64Bit(acc, U64_BITS) = 1 THEN U64_MAX
    ELSE SaturatingDoublings(LimbsDouble(acc, 0), exp - 1)

saturating_pow_2(exp) == SaturatingDoublings(U64_ONE, exp)

\* relocation::partial_signature (relocation.rs:39-55): the first 8 bytes of
\* the signature, fewer when the signature is shorter, over a zeroed buffer
partial_signature(signature) ==
    LET len == IF Len(signature) < U64_BYTES THEN Len(signature) ELSE U64_BYTES
        dst == Evaluated([i \in 1..U64_BYTES |-> IF i <= len THEN signature[i] ELSE 0])
    IN  u64_from_le_bytes(dst)

\* relocation::check (relocation.rs:27-36)
check(age, churn_signature) ==
    u64_rem(partial_signature(churn_signature), saturating_pow_2(age)) = U64_ZERO

\* Signatures as byte strings: `zeros` zero bytes, then the byte `low`, then
\* the byte `high` up to the length
SignatureBytes(len, zeros, low, high) ==
    [i \in 1..len |-> IF i <= zeros THEN 0 ELSE IF i = zeros + 1 THEN low ELSE high]

LowBytes == {1, 8, 128, U8_MAX}

HighBytes == {0, U8_MAX}

\* The churn signatures given to check, of both lengths
ChurnSignatures ==
    {SignatureBytes(len, zeros, low, high) :
        len \in {MOCK_SIG_SIZE, SIG_SIZE}, zeros \in 0..MaxZeroBytes,
        low \in LowBytes, high \in HighBytes}

\* The ages given to check (age: u8): the small ones, the ones around the
\* width of u64, and the largest
CheckAges ==
    (0..MaxCheckAge) \cup ((U64_BITS - 2)..(U64_BITS + 2)) \cup {U8_MAX}

\* Ord of two signatures, lexicographic on the bytes: the first byte that
\* differs decides, and without one the lengths do
SignatureCmp(x, y) ==
    LET common  == IF Len(x) < Len(y) THEN Len(x) ELSE Len(y)
        differs == {i \in 1..common : x[i] # y[i]}
    IN  IF differs # {}
        THEN LET first == CHOOSE i \in differs : \A j \in differs : i <= j
             IN  IF x[first] < y[first] THEN "Less" ELSE "Greater"
        ELSE IF Len(x) < Len(y) THEN "Less"
        ELSE IF Len(x) > Len(y) THEN "Greater"
        ELSE "Equal"

\* The section members that can be candidates
Members == 1..MaxMember

\* The signatures of the candidates' proofs
ProofSignatures ==
    {SignatureBytes(SIG_SIZE, 0, low, high) : low \in {1, U8_MAX}, high \in HighBytes}

\* Proven<MemberInfo>: the member (its name and age) and the proof's signature
Candidates ==
    [value : [name : Members, age : Ages], proof : [signature : ProofSignatures]]

\* The mutant of select that returns its first argument on Less
select_First(a, b) ==
    LET ordering ==
            IF a.value.age > b.value.age THEN "Greater"
            ELSE IF a.value.age < b.value.age THEN "Less"
            ELSE SignatureCmp(a.proof.signature, b.proof.signature)
    IN  IF ordering = "Equal" THEN b ELSE a

\* The mutant of select that does not compare the signatures
select_AgeOnly(a, b) ==
    IF a.value.age > b.value.age THEN a ELSE b

\* relocation::select (relocation.rs:62-75)
select(a, b) ==
    LET ordering ==
            IF a.value.age > b.value.age THEN "Greater"
            ELSE IF a.value.age < b.value.age THEN "Less"
            ELSE SignatureCmp(a.proof.signature, b.proof.signature)
    IN  IF ordering = "Greater" THEN a ELSE b

\* l ^ r on two bytes
ByteXor(l, r) ==
    LET bit(i) == (BitOf(l, i) + BitOf(r, i)) % 2
    IN  bit(0) + 2 * bit(1) + 4 * bit(2) + 8 * bit(3)
        + 16 * bit(4) + 32 * bit(5) + 64 * bit(6) + 128 * bit(7)

\* XorName::default(): all bytes zero
XorName_default == [i \in 1..XOR_NAME_LEN |-> 0]

\* relocation::xor (relocation.rs:85-92): the zip stops with the shortest of
\* output, lhs and rhs
xor(lhs, rhs) ==
    [i \in 1..XOR_NAME_LEN |->
        IF i <= Len(lhs) /\ i <= Len(rhs) THEN ByteXor(lhs[i], rhs[i])
        ELSE XorName_default[i]]

\* crypto::sha3_256: a digest, one for each input
sha3_256(bytes) == <<"sha3_256", bytes>>

\* The mutant of compute_destination that hashes the relocating name alone
compute_destination_NoXor(relocating_name, churn_name) ==
    sha3_256(relocating_name)

\* relocation::compute_destination (relocation.rs:79-82)
compute_destination(relocating_name, churn_name) ==
    LET combined_name == xor(relocating_name, churn_name)
    IN  sha3_256(combined_name)

\* The names given to compute_destination
NameBytes == {0, 1, 170, U8_MAX}

XorNames ==
    {[i \in 1..XOR_NAME_LEN |-> IF i = 1 THEN first ELSE fill] :
        first \in NameBytes, fill \in NameBytes}

\* The destinations named in relocate details
DestinationNames == {[i \in 1..XOR_NAME_LEN |-> b] : b \in HighBytes}

\* RelocateDetails (relocation.rs:96-107); the destination key plays no part
\* in what follows and is left out
RelocateDetailsValues == [pub_id : Keys, destination : DestinationNames, age : Ages]

\* The variants of a routing message: Relocate, which carries relocate
\* details, and the others, which do not
OtherVariants == {"UserMessage", "BootstrapRequest"}

Messages ==
    {[variant |-> [tag |-> "Relocate", details |-> d]] : d \in RelocateDetailsValues}
    \cup {[variant |-> [tag |-> t]] : t \in OtherVariants}

\* Message::variant
Message_variant(signed_msg) == signed_msg.variant

\* What a peer can put on the wire where a message is expected: the
\* encoding of a message, or bytes that decode to none
WireMessages ==
    {[wellformed |-> TRUE, msg |-> m] : m \in Messages}
    \cup {[wellformed |-> FALSE]}

\* Deserialize::deserialize for Message (relocation.rs:152)
Message_deserialize(bytes) ==
    IF bytes.wellformed
    THEN [ok |-> TRUE, value |-> bytes.msg]
    ELSE [ok |-> FALSE, error |-> "decode"]

\* The mutant of SignedRelocateDetails_new that accepts every variant
SignedRelocateDetails_new_AnyVariant(signed_msg) ==
    [ok |-> TRUE, value |-> [signed_msg |-> signed_msg]]

\* SignedRelocateDetails::new (relocation.rs:117-123)
SignedRelocateDetails_new(signed_msg) ==
    IF Message_variant(signed_msg).tag = "Relocate"
    THEN [ok |-> TRUE, value |-> [signed_msg |-> signed_msg]]
    ELSE [ok |-> FALSE, error |-> "InvalidMessage"]

\* impl Deserialize for SignedRelocateDetails (relocation.rs:150-160)
SignedRelocateDetails_deserialize(bytes) ==
    LET signed_msg == Message_deserialize(bytes) IN
    IF ~signed_msg.ok THEN [ok |-> FALSE, error |-> "decode"]
    ELSE LET r == SignedRelocateDetails_new(signed_msg.value) IN
         IF r.ok THEN r ELSE [ok |-> FALSE, error |-> "decode"]

\* SignedRelocateDetails::relocate_details (relocation.rs:127-133): the
\* details, or a panic
SignedRelocateDetails_relocate_details(self) ==
    IF Message_variant(self.signed_msg).tag = "Relocate"
    THEN [panic |-> FALSE, value |-> Message_variant(self.signed_msg).details]
    ELSE [panic |-> TRUE]

\* SignedRelocateDetails::destination (relocation.rs:139-141)
SignedRelocateDetails_destination(self) ==
    LET details == SignedRelocateDetails_relocate_details(self) IN
    IF details.panic THEN [panic |-> TRUE]
    ELSE [panic |-> FALSE, value |-> details.value.destination]

\* Node identities: full id k has the public id k
PublicIds == Keys

\* The values given where a public id is expected: bincode's serialize can
\* return an error, which the value Unserialisable stands for
PublicIdArguments == PublicIds \cup {Unserialisable}

\* bincode::serialize of a public id (relocation.rs:176, 186)
serialize(pub_id) ==
    IF pub_id = Unserialisable
    THEN [ok |-> FALSE, data |-> <<>>]
    ELSE [ok |-> TRUE, data |-> <<"PublicId", pub_id>>]

\* Every value that can stand where the signature of a new id is expected
IdSignatures == [signer : PublicIds, data : {serialize(x).data : x \in PublicIds}]

\* FullId::sign
FullId_sign(full_id, data) == sign_detached(data, full_id)

\* PublicId::verify
PublicId_verify(pub_id, data, signature) == verify_detached(signature, data, pub_id)

\* The SignedRelocateDetails values that SignedRelocateDetails::new gives
SignedRelocateDetailsValues ==
    {SignedRelocateDetails_new(m).value :
        m \in {x \in Messages : SignedRelocateDetails_new(x).ok}}

\* RelocatePayload::new (relocation.rs:171-183)
RelocatePayload_new(details, new_pub_id, old_full_id) ==
    LET new_id_serialised == serialize(new_pub_id) IN
    IF ~new_id_serialised.ok THEN [ok |-> FALSE, error |-> "Bincode"]
    ELSE [ok |-> TRUE,
          value |-> [details |-> details,
                     signature_of_new_id_with_old_id |->
                         FullId_sign(old_full_id, new_id_serialised.data)]]

\* Deserialize for RelocatePayload (derived, relocation.rs:162): the details
\* go through SignedRelocateDetails's deserialize, the signature is any
RelocatePayload_deserialize(bytes) ==
    LET details == SignedRelocateDetails_deserialize(bytes.details) IN
    IF ~details.ok THEN [ok |-> FALSE, error |-> "decode"]
    ELSE [ok |-> TRUE,
          value |-> [details |-> details.value,
                     signature_of_new_id_with_old_id |-> bytes.signature]]

\* The mutant of RelocatePayload_verify_identity that verifies under the
\* key of whoever signed
RelocatePayload_verify_identity_AnySigner(self, new_pub_id) ==
    LET new_id_serialised == serialize(new_pub_id) IN
    IF ~new_id_serialised.ok THEN [panic |-> FALSE, value |-> FALSE]
    ELSE [panic |-> FALSE,
          value |-> self.signature_of_new_id_with_old_id.data = new_id_serialised.data]

\* RelocatePayload::verify_identity (relocation.rs:185-195)
RelocatePayload_verify_identity(self, new_pub_id) ==
    LET new_id_serialised == serialize(new_pub_id) IN
    IF ~new_id_serialised.ok THEN [panic |-> FALSE, value |-> FALSE]
    ELSE LET details == SignedRelocateDetails_relocate_details(self.details) IN
         IF details.panic THEN [panic |-> TRUE]
         ELSE [panic |-> FALSE,
               value |-> PublicId_verify(details.value.pub_id, new_id_serialised.data,
                                         self.signature_of_new_id_with_old_id)]

\* No call of a relocation function
InitReloc == reloc = [op |-> "none", done |-> TRUE]

\* One call of a relocation function, with its arguments, not yet made
RelocCalls ==
    \/ \E age \in CheckAges, churn_signature \in ChurnSignatures :
        reloc = [op |-> "check", done |-> FALSE, age |-> age,
                 churn_signature |-> churn_signature]
    \/ \E a \in Candidates, b \in Candidates :
        reloc = [op |-> "select", done |-> FALSE, a |-> a, b |-> b]
    \/ \E relocating_name \in XorNames, churn_name \in XorNames :
        reloc = [op |-> "compute_destination", done |-> FALSE,
                 relocating_name |-> relocating_name, churn_name |-> churn_name]
    \/ \E signed_msg \in Messages :
        reloc = [op |-> "SignedRelocateDetails::new", done |-> FALSE,
                 signed_msg |-> signed_msg]
    \/ \E bytes \in WireMessages :
        reloc = [op |-> "SignedRelocateDetails::deserialize", done |-> FALSE,
                 bytes |-> bytes]
    \/ \E details \in SignedRelocateDetailsValues, new_pub_id \in PublicIdArguments,
          old_full_id \in PublicIds :
        reloc = [op |-> "RelocatePayload::new", done |-> FALSE, details |-> details,
                 new_pub_id |-> new_pub_id, old_full_id |-> old_full_id]
    \/ \E details \in WireMessages, signature \in IdSignatures :
        reloc = [op |-> "RelocatePayload::deserialize", done |-> FALSE,
                 bytes |-> [details |-> details, signature |-> signature]]

\* relocation::check(age, &churn_signature)
RelocCheck ==
    /\ reloc.op = "check"
    /\ ~reloc.done
    /\ reloc' = [op |-> "check", done |-> TRUE, age |-> reloc.age,
                 churn_signature |-> reloc.churn_signature,
                 out |-> check(reloc.age, reloc.churn_signature)]
    /\ UNCHANGED <<sendVars, blockVars, voteVars, connVars, routingVars>>

\* relocation::select(&a, &b)
RelocSelect ==
    /\ reloc.op = "select"
    /\ ~reloc.done
    /\ reloc' = [op |-> "select", done |-> TRUE, a |-> reloc.a, b |-> reloc.b,
                 out |-> select(reloc.a, reloc.b)]
    /\ UNCHANGED <<sendVars, blockVars, voteVars, connVars, routingVars>>

\* relocation::compute_destination(&relocating_name, &churn_name)
RelocComputeDestination ==
    /\ reloc.op = "compute_destination"
    /\ ~reloc.done
    /\ reloc' = [op |-> "compute_destination", done |-> TRUE,
                 relocating_name |-> reloc.relocating_name,
                 churn_name |-> reloc.churn_name,
                 out |-> compute_destination(reloc.relocating_name, reloc.churn_name)]
    /\ UNCHANGED <<sendVars, blockVars, voteVars, connVars, routingVars>>

\* ------------------------------------------------------------------------
\* Specifications
\* ------------------------------------------------------------------------

\* The send component at rest, for the specifications of other components
\* ------------------------------------------------------------------------
\* Inner::send and the connection cache (comm.rs:167-195)
\* ------------------------------------------------------------------------

Senders == 1..MaxSender

Peers == 1..MaxPeer

\* Option::None where a connection is expected
NoConn == 0

\* The Mutex is not held
NoHolder == 0

\* A call of Inner::send that has not started
IdleSender == [pc |-> "idle", recipient |-> 0, conn |-> NoConn, result |-> "none"]

\* LruCache::get
LruCache_get(cache, key) == cache[key]

\* LruCache::insert: the value of an existing key is replaced
LruCache_insert(cache, key, value) == [cache EXCEPT ![key] = value]

\* The mutant of GuardAfterGet that keeps the guard (the entry API)
GuardAfterGet_Held(t) == t

\* The holder of the Mutex after `self.node_conns.lock().await.get(..).cloned()`:
\* the guard is a temporary and is dropped at the end of the statement
GuardAfterGet(t) == NoHolder

\* The same for the statement of the insertion
GuardAfterInsert(t) == NoHolder

\* No Comm: no cache and no call of Inner::send
ConnParked ==
    /\ node_conns = <<>>
    /\ lock = NoHolder
    /\ sender = <<>>
    /\ connections = 0

\* Comm::new leaves the cache empty, Comm::from_bootstrapping caches the
\* connection to the bootstrap node
InitConn ==
    /\ \E boot \in Peers \cup {0} :
        /\ node_conns = [a \in Peers |-> IF a = boot THEN 1 ELSE NoConn]
        /\ connections = IF boot = 0 THEN 0 ELSE 1
    /\ lock = NoHolder
    /\ sender = [t \in Senders |-> IdleSender]

\* self.inner.send(&addr, msg) is called
SendStart(t) ==
    /\ sender[t].pc = "idle"
    /\ \E recipient \in Peers :
        sender' = [sender EXCEPT ![t] = [@ EXCEPT !.pc = "lock_get",
                                                  !.recipient = recipient]]
    /\ UNCHANGED <<node_conns, lock, connections>>
    /\ UNCHANGED <<sendVars, blockVars, voteVars, relocVars, routingVars>>

\* self.node_conns.lock().await resolves (comm.rs:177)
LockForGet(t) ==
    /\ sender[t].pc = "lock_get"
    /\ lock = NoHolder
    /\ lock' = t
    /\ sender' = [sender EXCEPT ![t] = [@ EXCEPT !.pc = "get"]]
    /\ UNCHANGED <<node_conns, connections>>
    /\ UNCHANGED <<sendVars, blockVars, voteVars, relocVars, routingVars>>

\* .get(recipient).cloned(), the end of the statement, and the branch on it
Get(t) ==
    /\ sender[t].pc = "get"
    /\ LET conn == LruCache_get(node_conns, sender[t].recipient) IN
        sender' = [sender EXCEPT ![t] =
            [@ EXCEPT !.conn = conn,
                      !.pc = IF conn # NoConn THEN "send_uni" ELSE "connect_to"]]
    /\ lock' = GuardAfterGet(t)
    /\ UNCHANGED <<node_conns, connections>>
    /\ UNCHANGED <<sendVars, blockVars, voteVars, relocVars, routingVars>>

\* self.endpoint.connect_to(recipient).await gives a new connection
ConnectOk(t) ==
    /\ sender[t].pc = "connect_to"
    /\ connections' = connections + 1
    /\ sender' = [sender EXCEPT ![t] = [@ EXCEPT !.conn = connections + 1,
                                                  !.pc = "lock_insert"]]
    /\ UNCHANGED <<node_conns, lock>>
    /\ UNCHANGED <<sendVars, blockVars, voteVars, relocVars, routingVars>>

\* self.endpoint.connect_to(recipient).await? returns the error
ConnectErr(t) ==
    /\ sender[t].pc = "connect_to"
    /\ sender' = [sender EXCEPT ![t] = [@ EXCEPT !.result = "ConnectErr",
                                                  !.pc = "done"]]
    /\ UNCHANGED <<node_conns, lock, connections>>
    /\ UNCHANGED <<sendVars, blockVars, voteVars, relocVars, routingVars>>

\* self.node_conns.lock().await resolves (comm.rs:183-185)
LockForInsert(t) ==
    /\ sender[t].pc = "lock_insert"
    /\ lock = NoHolder
    /\ lock' = t
    /\ sender' = [sender EXCEPT ![t] = [@ EXCEPT !.pc = "insert"]]
    /\ UNCHANGED <<node_conns, connections>>
    /\ UNCHANGED <<sendVars, blockVars, voteVars, relocVars, routingVars>>

\* .insert(*recipient, Arc::clone(&conn)) and the end of the statement
Insert(t) ==
    /\ sender[t].pc = "insert"
    /\ node_conns' = LruCache_insert(node_conns, sender[t].recipient, sender[t].conn)
    /\ lock' = GuardAfterInsert(t)
    /\ sender' = [sender EXCEPT ![t] = [@ EXCEPT !.pc = "send_uni"]]
    /\ UNCHANGED connections
    /\ UNCHANGED <<sendVars, blockVars, voteVars, relocVars, routingVars>>

\* conn.send_uni(msg).await is Ok: the message is written on conn
SendUniOk(t) ==
    /\ sender[t].pc = "send_uni"
    /\ sender' = [sender EXCEPT ![t] = [@ EXCEPT !.result = "Ok", !.pc = "done"]]
    /\ UNCHANGED <<node_conns, lock, connections>>
    /\ UNCHANGED <<sendVars, blockVars, voteVars, relocVars, routingVars>>

\* conn.send_uni(msg).await? returns the error
SendUniErr(t) ==
    /\ sender[t].pc = "send_uni"
    /\ sender' = [sender EXCEPT ![t] = [@ EXCEPT !.result = "WriteErr", !.pc = "done"]]
    /\ UNCHANGED <<node_conns, lock, connections>>
    /\ UNCHANGED <<sendVars, blockVars, voteVars, relocVars, routingVars>>

\* ------------------------------------------------------------------------
\* Routing: construction, events and the state readers (routing/mod.rs).
\* The node state, the section and the command handlers are not part of
\* the sources and are modelled from the specification.
\* ------------------------------------------------------------------------

\* A name whose first byte is b, the other bytes zero
NameOf(b) == [i \in 1..XOR_NAME_LEN |-> IF i = 1 THEN b ELSE 0]

\* The name of this node
OurName == NameOf(1)

\* The names of the nodes of our section
SectionNames == {NameOf(1), NameOf(170), NameOf(U8_MAX)}

\* The names that distances are taken to
TargetNames == {NameOf(0), NameOf(U8_MAX)}

\* MemberInfo of a name: no (joined) member, a member below MIN_AGE + 1, or
\* a mature one
MemberAges == {"absent", "infant", "adult"}

\* The node state before Approved exists
NoState == [elders |-> {}, members |-> [n \in SectionNames |-> "absent"]]

\* Approved::first_node: the node is the sole member and the sole elder
Approved_first_node ==
    [elders |-> {OurName},
     members |-> [n \in SectionNames |-> IF n = OurName THEN "adult" ELSE "absent"]]

\* bootstrap::infant and Approved::new: the section the node joined, with
\* its elder, and the node as an infant
Approved_new ==
    [elders |-> {NameOf(170)},
     members |-> [n \in SectionNames |->
                    IF n = OurName THEN "infant"
                    ELSE IF n = NameOf(170) THEN "adult" ELSE "absent"]]

\* Approved::is_elder
Approved_is_elder(st) == OurName \in st.elders

\* Section::adults: the mature members that are not elders
Section_adults(st) ==
    {n \in SectionNames : st.members[n] = "adult" /\ n \notin st.elders}

\* The steps of Routing::new in order (routing/mod.rs:88-131)
NewSteps(first) ==
    IF first
    THEN <<"Comm::new", "listen", "our_connection_info", "Approved::first_node",
           "send_event", "Executor::new">>
    ELSE <<"Comm::from_bootstrapping", "listen", "our_connection_info",
           "bootstrap::infant", "Approved::new", "send_event", "Executor::new">>

\* The steps of Routing::new that end with `?`
Fallible ==
    {"Comm::new", "Comm::from_bootstrapping", "listen", "our_connection_info",
     "Approved::first_node", "bootstrap::infant"}

\* An event sent by Routing::new itself
ByNew(event) == [event |-> event, cause |-> "new"]

\* The mutant of ConstructionEvents that promotes every node
ConstructionEvents_Promoted(first) ==
    <<ByNew("Connected(First)"), ByNew("PromotedToElder")>>

\* The send_event calls of Routing::new (routing/mod.rs:102-103, 116)
ConstructionEvents(first) ==
    IF first THEN <<ByNew("Connected(First)"), ByNew("PromotedToElder")>>
    ELSE <<ByNew("Connected(First)")>>

\* The node state that a step of Routing::new leaves
StateAfter(step, st) ==
    IF step = "Approved::first_node" THEN Approved_first_node
    ELSE IF step = "Approved::new" THEN Approved_new
    ELSE st

\* XorName::cmp_distance(self, lhs, rhs): the first byte in which lhs and rhs
\* differ decides, by its XOR with the byte of self
XorName_cmp_distance(self, lhs, rhs) ==
    IF lhs = rhs THEN "Equal"
    ELSE LET i == CHOOSE k \in 1..XOR_NAME_LEN :
                    /\ lhs[k] # rhs[k]
                    /\ \A j \in 1..(k - 1) : lhs[j] = rhs[j]
         IN  IF ByteXor(lhs[i], self[i]) < ByteXor(rhs[i], self[i])
             THEN "Less" ELSE "Greater"

\* The iteration of a map keyed by name: in the order of the names
RECURSIVE InNameOrder(_)
InNameOrder(names) ==
    IF names = {} THEN <<>>
    ELSE LET least == CHOOSE n \in names :
                        \A m \in names : XorName_cmp_distance(XorName_default, n, m) # "Greater"
         IN  <<least>> \o InNameOrder(names \ {least})

\* The place of x in a sorted vector: after every element that is not
\* Greater than x (the sort is stable)
InsertBy(sorted, x, name) ==
    LET k == Cardinality({i \in DOMAIN sorted :
                            XorName_cmp_distance(name, sorted[i], x) # "Greater"})
    IN  SubSeq(sorted, 1, k) \o <<x>> \o SubSeq(sorted, k + 1, Len(sorted))

\* The mutant of sorted_by that leaves the vector as it is
sorted_by_Unsorted(v, name) == v

\* Itertools::sorted_by with name.cmp_distance(lhs.name(), rhs.name())
RECURSIVE sorted_by(_, _)
sorted_by(v, name) ==
    IF v = <<>> THEN <<>>
    ELSE InsertBy(sorted_by(SubSeq(v, 1, Len(v) - 1), name), v[Len(v)], name)

\* Routing::our_elders on the state read
Routing_our_elders(st) == InNameOrder(st.elders)

\* Routing::our_adults on the state read
Routing_our_adults(st) == InNameOrder(Section_adults(st))

\* Routing::our_elders_sorted_by_distance_to
Routing_our_elders_sorted_by_distance_to(st, name) ==
    sorted_by(Routing_our_elders(st), name)

\* Routing::our_adults_sorted_by_distance_to
Routing_our_adults_sorted_by_distance_to(st, name) ==
    sorted_by(Routing_our_adults(st), name)

\* The state-reading methods of the handle that the model follows
ReaderOps ==
    {"name", "is_elder", "our_elders", "our_adults",
     "our_elders_sorted_by_distance_to", "our_adults_sorted_by_distance_to"}

SortedOps == {"our_elders_sorted_by_distance_to", "our_adults_sorted_by_distance_to"}

\* What a method returns from the state it read under the lock
ReadUnderLock(op, st) ==
    IF op = "name" THEN OurName
    ELSE IF op = "is_elder" THEN Approved_is_elder(st)
    ELSE IF op \in {"our_elders", "our_elders_sorted_by_distance_to"}
         THEN Routing_our_elders(st)
    ELSE Routing_our_adults(st)

\* What a method returns for a node state
ReaderResult(op, st, name) ==
    IF op = "our_elders_sorted_by_distance_to"
    THEN Routing_our_elders_sorted_by_distance_to(st, name)
    ELSE IF op = "our_adults_sorted_by_distance_to"
    THEN Routing_our_adults_sorted_by_distance_to(st, name)
    ELSE ReadUnderLock(op, st)

\* The mutant of CanAcquire that does not wait for the lock
CanAcquire_Always(holder) == TRUE

\* self.stage.state.lock().await resolves when nobody holds the Mutex
CanAcquire(holder) == holder = "nobody"

\* The changes of the node state that a handled command makes
Mutations(st) ==
    {[st EXCEPT !.members[n] = age] :
        n \in {m \in SectionNames : st.members[m] = "absent"},
        age \in {"infant", "adult"}}
    \cup {[st EXCEPT !.members[n] = "adult"] :
            n \in {m \in SectionNames : st.members[m] = "infant"}}
    \cup {[st EXCEPT !.elders = E] :
            E \in {F \in SUBSET {m \in SectionNames : st.members[m] = "adult"} :
                    F # {} /\ F # st.elders}}
    \cup {[elders |-> st.elders \ {n}, members |-> [st.members EXCEPT ![n] = "absent"]] :
            n \in {m \in SectionNames :
                    m # OurName /\ st.members[m] # "absent" /\ st.elders # {m}}}

\* The event a handled command sends when it has changed the state
EventOf(before, after) ==
    [event |-> IF ~Approved_is_elder(before) /\ Approved_is_elder(after)
               THEN "PromotedToElder"
               ELSE IF before.elders # after.elders THEN "EldersChanged"
               ELSE "MemberJoined",
     cause |-> "message"]

IdleHandler == [pc |-> "idle", write |-> NoState, before |-> NoState, handled |-> 0]

IdleReader == [pc |-> "idle", op |-> "none", name |-> XorName_default,
               elders |-> {}, members |-> NoState.members, out |-> <<>>]

\* No Routing: nothing is built, no state, no handler and no reader
RoutingParked ==
    /\ config_first = FALSE
    /\ construction = [step |-> 0, result |-> "none"]
    /\ events = <<>>
    /\ state = <<>>
    /\ stateLock = "nobody"
    /\ handler = <<>>
    /\ reader = <<>>
    /\ held = {}

\* Routing::new(config) is called
InitRouting ==
    /\ config_first \in BOOLEAN
    /\ construction = [step |-> 0, result |-> "none"]
    /\ events = <<>>
    /\ state = NoState
    /\ stateLock = "nobody"
    /\ handler = IdleHandler
    /\ reader = IdleReader
    /\ held = {}

\* The next step of Routing::new succeeds; the last one returns
\* Ok((routing, event_stream))
NewStepOk ==
    /\ construction.result = "none"
    /\ LET steps == NewSteps(config_first)
           step == steps[construction.step + 1]
       IN  /\ construction' =
                [step |-> construction.step + 1,
                 result |-> IF construction.step + 1 = Len(steps) THEN "Ok" ELSE "none"]
           /\ state' = StateAfter(step, state)
           /\ held' = IF state' # state THEN {state'} ELSE held
           /\ events' = IF step = "send_event"
                        THEN events \o ConstructionEvents(config_first)
                        ELSE events
    /\ UNCHANGED <<config_first, stateLock, handler, reader>>
    /\ UNCHANGED <<sendVars, blockVars, voteVars, relocVars, connVars>>

\* A step of Routing::new that ends with `?` returns its error
NewStepErr ==
    /\ construction.result = "none"
    /\ NewSteps(config_first)[construction.step + 1] \in Fallible
    /\ construction' = [construction EXCEPT !.result = "Err"]
    /\ UNCHANGED <<config_first, events, state, stateLock, handler, reader, held>>
    /\ UNCHANGED <<sendVars, blockVars, voteVars, relocVars, connVars>>

\* The executor takes a command that changes the state: the handler
\* acquires the state lock
HandlerLock ==
    /\ construction.result = "Ok"
    /\ handler.pc = "idle"
    /\ handler.handled < MaxHandled
    /\ CanAcquire(stateLock)
    /\ stateLock' = "handler"
    /\ \E write \in Mutations(state) :
        handler' = [handler EXCEPT !.pc = "elders", !.write = write, !.before = state]
    /\ UNCHANGED <<config_first, construction, events, state, reader, held>>
    /\ UNCHANGED <<sendVars, blockVars, voteVars, relocVars, connVars>>

\* The handler writes the elders of the section
HandlerWriteElders ==
    /\ handler.pc = "elders"
    /\ state' = [state EXCEPT !.elders = handler.write.elders]
    /\ handler' = [handler EXCEPT !.pc = "members"]
    /\ UNCHANGED <<config_first, construction, events, stateLock, reader, held>>
    /\ UNCHANGED <<sendVars, blockVars, voteVars, relocVars, connVars>>

\* The handler writes the members, sends its event and drops the lock
HandlerWriteMembers ==
    /\ handler.pc = "members"
    /\ state' = [state EXCEPT !.members = handler.write.members]
    /\ held' = held \cup {state'}
    /\ events' = Append(events, EventOf(handler.before, state'))
    /\ stateLock' = "nobody"
    /\ handler' = [handler EXCEPT !.pc = "idle", !.handled = @ + 1]
    /\ UNCHANGED <<config_first, construction, reader>>
    /\ UNCHANGED <<sendVars, blockVars, voteVars, relocVars, connVars>>

\* A state-reading method of the handle is called
ReaderCall ==
    /\ construction.result = "Ok"
    /\ reader.pc = "idle"
    /\ \E op \in ReaderOps, name \in TargetNames :
        /\ op \notin SortedOps => name = NameOf(0)
        /\ reader' = [reader EXCEPT !.pc = "lock", !.op = op, !.name = name]
    /\ UNCHANGED <<config_first, construction, events, state, stateLock, handler, held>>
    /\ UNCHANGED <<sendVars, blockVars, voteVars, relocVars, connVars>>

\* self.stage.state.lock().await resolves
ReaderLock ==
    /\ reader.pc = "lock"
    /\ CanAcquire(stateLock)
    /\ stateLock' = "reader"
    /\ reader' = [reader EXCEPT !.pc = "elders"]
    /\ UNCHANGED <<config_first, construction, events, state, handler, held>>
    /\ UNCHANGED <<sendVars, blockVars, voteVars, relocVars, connVars>>

\* Under the guard: the elders are read
ReaderReadElders ==
    /\ reader.pc = "elders"
    /\ reader' = [reader EXCEPT !.pc = "members", !.elders = state.elders]
    /\ UNCHANGED <<config_first, construction, events, state, stateLock, handler, held>>
    /\ UNCHANGED <<sendVars, blockVars, voteVars, relocVars, connVars>>

\* Under the guard: the members are read and the value is made; the guard
\* is dropped at the end of the statement
ReaderReadMembers ==
    /\ reader.pc = "members"
    /\ LET st == [elders |-> reader.elders, members |-> state.members] IN
        reader' = [reader EXCEPT !.pc = IF reader.op \in SortedOps THEN "sort" ELSE "done",
                                 !.members = state.members,
                                 !.out = ReadUnderLock(reader.op, st)]
    /\ stateLock' = "nobody"
    /\ UNCHANGED <<config_first, construction, events, state, handler, held>>
    /\ UNCHANGED <<sendVars, blockVars, voteVars, relocVars, connVars>>

\* .into_iter().sorted_by(..).collect() of the distance-sorted variants
ReaderSort ==
    /\ reader.pc = "sort"
    /\ reader' = [reader EXCEPT !.pc = "done", !.out = sorted_by(reader.out, reader.name)]
    /\ UNCHANGED <<config_first, construction, events, state, stateLock, handler, held>>
    /\ UNCHANGED <<sendVars, blockVars, voteVars, relocVars, connVars>>

SendParked ==
    /\ targets = <<>>
    /\ g = 0
    /\ recipients = <<>>
    /\ remaining = 0
    /\ tasks = [a \in Addrs |-> 0]
    /\ pc = "idle"
    /\ status = NoStatus
    /\ result = "none"
    /\ sends = [a \in Addrs |-> 0]
    /\ successes = 0
    /\ failures = 0
    /\ got = {}
    /\ everFailed = {}

NextSend ==
    \/ Dispatch
    \/ TaskSuccess
    \/ TaskFailure
    \/ Finish
    \/ IntoResult

SendInit == InitSend /\ InitBlock /\ InitVote /\ InitReloc /\ ConnParked /\ RoutingParked

\* One call of Comm::send_message_to_targets and the conversion of its status
SendSpec == SendInit /\ [][NextSend]_vars

NextBlock ==
    \/ BlockNew
    \/ AddProof
    \/ RemoveProof
    \/ PruneProofs

BlockInit == SendParked /\ InitBlock /\ InitVote /\ InitReloc /\ ConnParked /\ RoutingParked

\* The life of one Block
BlockSpec == BlockInit /\ [][NextBlock]_vars

NextVote ==
    \/ VoteNew
    \/ VoteReceive
    \/ VoteValidateSignature
    \/ VoteProof

\* The votes on their own: no delivery group, no block, no relocation call
VoteInit == SendParked /\ InitBlock /\ InitVote /\ InitReloc /\ ConnParked /\ RoutingParked

VoteSpec == VoteInit /\ [][NextVote]_vars

\* SignedRelocateDetails::new(signed_msg)
RelocSignedNew ==
    /\ reloc.op = "SignedRelocateDetails::new"
    /\ ~reloc.done
    /\ reloc' = [op |-> reloc.op, done |-> TRUE, signed_msg |-> reloc.signed_msg,
                 out |-> SignedRelocateDetails_new(reloc.signed_msg)]
    /\ UNCHANGED <<sendVars, blockVars, voteVars, connVars, routingVars>>

\* SignedRelocateDetails::deserialize of bytes received from a peer
RelocSignedDeserialize ==
    /\ reloc.op = "SignedRelocateDetails::deserialize"
    /\ ~reloc.done
    /\ reloc' = [op |-> reloc.op, done |-> TRUE, bytes |-> reloc.bytes,
                 out |-> SignedRelocateDetails_deserialize(reloc.bytes)]
    /\ UNCHANGED <<sendVars, blockVars, voteVars, connVars, routingVars>>

\* The SignedRelocateDetails value at hand: the Ok result of new or of
\* deserialize
HasSignedRelocateDetails ==
    /\ reloc.op \in {"SignedRelocateDetails::new", "SignedRelocateDetails::deserialize"}
    /\ reloc.done
    /\ reloc.out.ok

\* details.relocate_details() on the value at hand
RelocRelocateDetails ==
    /\ HasSignedRelocateDetails
    /\ reloc' = [op |-> "relocate_details", done |-> TRUE, self |-> reloc.out.value,
                 out |-> SignedRelocateDetails_relocate_details(reloc.out.value)]
    /\ UNCHANGED <<sendVars, blockVars, voteVars, connVars, routingVars>>

\* details.destination() on the value at hand
RelocDestination ==
    /\ HasSignedRelocateDetails
    /\ reloc' = [op |-> "destination", done |-> TRUE, self |-> reloc.out.value,
                 out |-> SignedRelocateDetails_destination(reloc.out.value)]
    /\ UNCHANGED <<sendVars, blockVars, voteVars, connVars, routingVars>>

\* RelocatePayload::new(details, &new_pub_id, &old_full_id)
RelocPayloadNew ==
    /\ reloc.op = "RelocatePayload::new"
    /\ ~reloc.done
    /\ reloc' = [op |-> reloc.op, done |-> TRUE, details |-> reloc.details,
                 new_pub_id |-> reloc.new_pub_id, old_full_id |-> reloc.old_full_id,
                 out |-> RelocatePayload_new(reloc.details, reloc.new_pub_id,
                                             reloc.old_full_id)]
    /\ UNCHANGED <<sendVars, blockVars, voteVars, connVars, routingVars>>

\* A RelocatePayload deserialised from bytes received from a peer
RelocPayloadDeserialize ==
    /\ reloc.op = "RelocatePayload::deserialize"
    /\ ~reloc.done
    /\ reloc' = [op |-> reloc.op, done |-> TRUE, bytes |-> reloc.bytes,
                 out |-> RelocatePayload_deserialize(reloc.bytes)]
    /\ UNCHANGED <<sendVars, blockVars, voteVars, connVars, routingVars>>

\* payload.verify_identity(&new_pub_id) on the payload at hand; `built` is
\* history: how RelocatePayload::new made the payload, if it did
RelocVerifyIdentity ==
    /\ reloc.op \in {"RelocatePayload::new", "RelocatePayload::deserialize"}
    /\ reloc.done
    /\ reloc.out.ok
    /\ \E new_pub_id \in PublicIdArguments :
        reloc' = [op |-> "verify_identity", done |-> TRUE, self |-> reloc.out.value,
                  new_pub_id |-> new_pub_id,
                  built |-> IF reloc.op = "RelocatePayload::new"
                            THEN [by_new |-> TRUE, new_pub_id |-> reloc.new_pub_id,
                                  old_full_id |-> reloc.old_full_id]
                            ELSE [by_new |-> FALSE],
                  out |-> RelocatePayload_verify_identity(reloc.out.value, new_pub_id)]
    /\ UNCHANGED <<sendVars, blockVars, voteVars, connVars, routingVars>>

NextReloc ==
    \/ RelocPayloadNew
    \/ RelocPayloadDeserialize
    \/ RelocVerifyIdentity
    \/ RelocCheck
    \/ RelocSelect
    \/ RelocComputeDestination
    \/ RelocSignedNew
    \/ RelocSignedDeserialize
    \/ RelocRelocateDetails
    \/ RelocDestination

\* The relocation functions on their own: one call, with the arguments that
\* the initial state draws
RelocInit == SendParked /\ InitBlock /\ InitVote /\ RelocCalls /\ ConnParked /\ RoutingParked

RelocSpec == RelocInit /\ [][NextReloc]_vars

NextConn ==
    \/ \E t \in Senders : SendStart(t)
    \/ \E t \in Senders : LockForGet(t)
    \/ \E t \in Senders : Get(t)
    \/ \E t \in Senders : ConnectOk(t)
    \/ \E t \in Senders : ConnectErr(t)
    \/ \E t \in Senders : LockForInsert(t)
    \/ \E t \in Senders : Insert(t)
    \/ \E t \in Senders : SendUniOk(t)
    \/ \E t \in Senders : SendUniErr(t)

ConnInit == SendParked /\ InitBlock /\ InitVote /\ InitReloc /\ InitConn /\ RoutingParked

\* Concurrent calls of Inner::send on one Comm
ConnSpec == ConnInit /\ [][NextConn]_vars

NextRouting ==
    \/ NewStepOk
    \/ NewStepErr
    \/ HandlerLock
    \/ HandlerWriteElders
    \/ HandlerWriteMembers
    \/ ReaderCall
    \/ ReaderLock
    \/ ReaderReadElders
    \/ ReaderReadMembers
    \/ ReaderSort

RoutingInit ==
    SendParked /\ InitBlock /\ InitVote /\ InitReloc /\ ConnParked /\ InitRouting

\* Routing::new, then the command handlers and the calls of the handle
RoutingSpec == RoutingInit /\ [][NextRouting]_vars

\* ------------------------------------------------------------------------
\* Properties of the delivery-group send
\* ------------------------------------------------------------------------

FailedSet == Range(status.failed_recipients)

\* C1: in every state of the call remaining = g - successes, with
\* 0 <= remaining and successes <= g (the usize counter never underflows),
\* and the SendStatus returned carries remaining = g - successes.
C1_RemainingIsGroupMinusSuccesses ==
    /\ remaining >= 0
    /\ successes <= g
    /\ remaining = g - successes
    /\ status.set => /\ status.remaining = g - successes
                     /\ status.remaining >= 0
                     /\ status.remaining + successes <= g

\* C1 witness: a call that returned after some but not all of the g successes
C1_Witness ==
    /\ status.set
    /\ successes >= 1
    /\ status.remaining >= 1

\* C2 (as claimed): failed_recipients is exactly the set of recipients that
\* were attempted RESEND_MAX_ATTEMPTS times and never succeeded, and no
\* address that received the message is listed.
C2_FailedRecipientsExact ==
    status.set =>
        /\ \A a \in FailedSet : sends[a] = RESEND_MAX_ATTEMPTS /\ a \notin got
        /\ \A a \in Range(targets) :
              (sends[a] >= RESEND_MAX_ATTEMPTS /\ a \notin got) => a \in FailedSet

\* C2 restricted to recipients lists without a repeated address
C2_DistinctRecipients == NoDuplicates(targets) => C2_FailedRecipientsExact

\* C3 (as claimed): when at least g of the recipients are reachable (no send
\* to them fails), the call returns remaining == 0.
C3_ReachableGroupIsServed ==
    (status.set /\ Cardinality(Range(targets) \ everFailed) >= g)
        => status.remaining = 0

\* C3 restricted to recipients lists without a repeated address
C3_DistinctRecipients == NoDuplicates(targets) => C3_ReachableGroupIsServed

\* C4 (as claimed): when the call returns remaining > 0, every recipient that
\* did not receive the message was attempted exactly RESEND_MAX_ATTEMPTS
\* times and is listed in failed_recipients.
C4_GivesUpOnlyWhenExhausted ==
    (status.set /\ status.remaining > 0) =>
        \A a \in Range(targets) \ got :
            sends[a] = RESEND_MAX_ATTEMPTS /\ a \in FailedSet

\* C4 restricted to recipients lists without a repeated address
C4_DistinctRecipients == NoDuplicates(targets) => C4_GivesUpOnlyWhenExhausted

\* C5: at every point of the call the sends in flight plus the successes are
\* at most g, so at most g recipients receive the message, and every send
\* beyond the first g follows a failure (no failure: at most g sends).
C5_InFlightPlusSuccessesAtMostGroup ==
    /\ InFlight + successes <= g
    /\ Cardinality(got) <= g
    /\ TotalSends <= g + failures
    /\ failures = 0 => TotalSends <= g

\* C5 witness: the first g recipients all succeeded and a backup was never
\* contacted
C5_Witness ==
    /\ status.set
    /\ g >= 1
    /\ failures = 0
    /\ successes = g
    /\ \E a \in Range(targets) : sends[a] = 0

C6_PerAddress == \A a \in Addrs : sends[a] <= RESEND_MAX_ATTEMPTS

C6_PerAddressDistinctRecipients == NoDuplicates(targets) => C6_PerAddress

\* C7 (as claimed): at most 3 * |recipients| sends are dispatched, and the
\* call returns only when no send is in flight and either g successes are
\* reached or every remaining recipient has used all its attempts.
C7_ReturnsOnlyWhenNothingLeft ==
    /\ TotalSends <= RESEND_MAX_ATTEMPTS * Len(targets)
    /\ status.set =>
          /\ InFlight = 0
          /\ \/ successes >= g
             \/ \A i \in DOMAIN recipients :
                    recipients[i].attempt >= RESEND_MAX_ATTEMPTS

\* C7 restricted to recipients lists without a repeated address
C7_DistinctRecipients == NoDuplicates(targets) => C7_ReturnsOnlyWhenNothingLeft

\* C7, termination: until it has returned the call can always take a step
C7_NeverStuck == pc = "loop" => ENABLED (Dispatch \/ TaskSuccess \/ TaskFailure \/ Finish)

\* C8 (as claimed): a call that returns remaining == 0 has delivered the
\* message to at least g distinct addresses.
C8_GroupOfDistinctAddresses ==
    (status.set /\ status.remaining = 0) => Cardinality(got) >= g

\* C8 restricted to recipients lists without a repeated address
C8_DistinctRecipients == NoDuplicates(targets) => C8_GroupOfDistinctAddresses

\* C9: the Result made from a SendStatus is Ok(()) iff remaining == 0 and
\* Err(FailedSend) iff remaining > 0, whatever failed_recipients holds.
C9_ResultFollowsRemaining ==
    pc = "converted" =>
        /\ result = "Ok" <=> status.remaining = 0
        /\ result = "FailedSend" <=> status.remaining > 0

\* C9 witness: g successes were reached although a backup recipient
\* exhausted its attempts, and the Result is Ok
C9_Witness ==
    /\ pc = "converted"
    /\ g >= 1
    /\ result = "Ok"
    /\ status.failed_recipients # <<>>

\* ------------------------------------------------------------------------
\* Properties of Block
\* ------------------------------------------------------------------------

\* C10: after any sequence of Block::new, add_proof, remove_proof and
\* prune_proofs_except, rejected calls included, every proof held in the
\* block has a signature that verifies against the block's payload under
\* the proof's key.
C10_EveryProofValidates ==
    blk.some => \A p \in blk.proofs : Proof_validate_signature(p, blk.payload)

\* C10 witness: a block holding two proofs right after it rejected an
\* add_proof whose signature does not verify
C10_Witness ==
    /\ blk.some
    /\ Block_total_proofs(blk) >= 2
    /\ blockOp.name = "add_proof"
    /\ ~blockOp.ok
    /\ ~Proof_validate_signature(blockOp.proof, blk.payload)

\* The public keys that have a proof in the block
BlockKeys == {Proof_key(p) : p \in blk.proofs}

\* The age of a key in the block, when the key has one proof
AgeOfKey(k) == Proof_age(CHOOSE p \in blk.proofs : Proof_key(p) = k)

RECURSIVE SumAgeOfKeys(_)
SumAgeOfKeys(keys) ==
    IF keys = {} THEN 0
    ELSE LET k == CHOOSE x \in keys : TRUE
         IN  AgeOfKey(k) + SumAgeOfKeys(keys \ {k})

\* C11: after any sequence of Block operations the public keys of the
\* block's proofs are pairwise distinct, also when two proofs of one key
\* were presented with different ages; so total_proofs() is the number of
\* distinct keys and total_proofs_age() counts each key's age once.
C11_OneProofPerKey ==
    blk.some =>
        /\ \A p, q \in blk.proofs : Proof_key(p) = Proof_key(q) => p = q
        /\ Block_total_proofs(blk) = Cardinality(BlockKeys)
        /\ Block_total_proofs_age(blk) = SumAgeOfKeys(BlockKeys)

\* What the proof set does keep: one proof per peer id, the pair of age and
\* public key
C11_OneProofPerPeerId ==
    blk.some =>
        /\ \A p, q \in blk.proofs : p.peer_id = q.peer_id => p = q
        /\ Block_total_proofs(blk) = Cardinality({p.peer_id : p \in blk.proofs})

\* C12: add_proof(p) returns Err(FailedSignature) and leaves the block as
\* it was when p's signature does not verify against the payload or when a
\* proof of p's key is already present; otherwise it returns Ok and the
\* proof set grows by exactly p.
C12_AddProofContract ==
    [][blockOp'.name = "add_proof" =>
        LET p == blockOp'.proof
            rejected ==
                \/ ~Proof_validate_signature(p, blk.payload)
                \/ \E q \in blk.proofs : Proof_key(q) = Proof_key(p)
        IN  IF rejected
            THEN ~blockOp'.ok /\ blk' = blk
            ELSE /\ blockOp'.ok
                 /\ blk'.proofs = blk.proofs \cup {p}
                 /\ p \notin blk.proofs
                 /\ blk'.payload = blk.payload]_vars

\* What add_proof does keep: the same contract with "a proof of p's peer id
\* (age and key) is already present" as the second reason to reject
C12_AddProofContractByPeerId ==
    [][blockOp'.name = "add_proof" =>
        LET p == blockOp'.proof
            rejected ==
                \/ ~Proof_validate_signature(p, blk.payload)
                \/ \E q \in blk.proofs : q.peer_id = p.peer_id
        IN  IF rejected
            THEN ~blockOp'.ok /\ blk' = blk
            ELSE /\ blockOp'.ok
                 /\ blk'.proofs = blk.proofs \cup {p}
                 /\ p \notin blk.proofs
                 /\ blk'.payload = blk.payload]_vars

\* remove_proof(k) followed by add_proof(p) on block b
RemoveThenAdd(b, p) == Block_add_proof(Block_remove_proof(b, Proof_key(p)), p)

\* C13: for every block B holding a proof p of key k, remove_proof(k)
\* followed by add_proof(p) succeeds and yields a block equal to B;
\* remove_proof(k) removes every proof of key k and nothing else, and is a
\* no-op when k has no proof in the block.
C13_RemoveThenAddRestores ==
    [][/\ blk'.some =>
            \A p \in blk'.proofs :
                /\ RemoveThenAdd(blk', p).ok
                /\ RemoveThenAdd(blk', p).block = blk'
       /\ blockOp'.name = "remove_proof" =>
            LET k == blockOp'.pub_key
            IN  /\ blk'.proofs = {q \in blk.proofs : Proof_key(q) # k}
                /\ blk'.payload = blk.payload
                /\ (\A q \in blk.proofs : Proof_key(q) # k) => blk' = blk]_vars

\* The round trip does restore every block that holds one proof per key
C13_RestoresWhenOneProofPerKey ==
    [][(/\ blk'.some
        /\ \A p, q \in blk'.proofs : Proof_key(p) = Proof_key(q) => p = q) =>
            \A p \in blk'.proofs :
                /\ RemoveThenAdd(blk', p).ok
                /\ RemoveThenAdd(blk', p).block = blk']_vars

\* remove_proof on its own keeps its part of C13
C13_RemoveProofFrame ==
    [][blockOp'.name = "remove_proof" =>
            LET k == blockOp'.pub_key
            IN  /\ blk'.proofs = {q \in blk.proofs : Proof_key(q) # k}
                /\ blk'.payload = blk.payload
                /\ (\A q \in blk.proofs : Proof_key(q) # k) => blk' = blk]_vars

\* C14: prune_proofs_except(S) leaves exactly the proofs whose key is in S;
\* it never adds a proof, never changes the payload, pruning again with the
\* same S changes nothing, and pruning down to zero proofs is permitted and
\* leaves a block with total_proofs() = 0.
C14_PruneKeepsExactlyS ==
    [][blockOp'.name = "prune_proofs_except" =>
        LET S == blockOp'.keys
        IN  /\ blockOp'.ok
            /\ blk'.some
            /\ blk'.proofs = {p \in blk.proofs : Proof_key(p) \in S}
            /\ blk'.proofs \subseteq blk.proofs
            /\ blk'.payload = blk.payload
            /\ Block_prune_proofs_except(blk', S) = blk'
            /\ (\A p \in blk.proofs : Proof_key(p) \notin S) =>
                    Block_total_proofs(blk') = 0]_vars

\* C14 witness: a block pruned to the empty set of keys is left with no
\* proof and still is a block
C14_Witness ==
    /\ blk.some
    /\ blockOp.name = "prune_proofs_except"
    /\ blockOp.keys = {}
    /\ Block_total_proofs(blk) = 0

\* C15: Block::new(vote, pub_key, age) returns Err(FailedSignature) when the
\* vote's signature does not verify under pub_key; otherwise it returns a
\* block whose payload is the vote's payload and that holds exactly one
\* proof, for pub_key, so total_proofs() = 1. No later operation changes
\* the payload.
C15_BlockNewContract ==
    [][/\ blockOp'.name = "new" =>
            LET v == blockOp'.vote
                k == blockOp'.pub_key
            IN  IF ~verify_detached(v.signature, serialise(v.payload).data, k)
                THEN ~blockOp'.ok /\ ~blk'.some
                ELSE /\ blockOp'.ok
                     /\ blk'.some
                     /\ blk'.payload = v.payload
                     /\ Block_total_proofs(blk') = 1
                     /\ \A p \in blk'.proofs :
                            /\ Proof_key(p) = k
                            /\ Proof_age(p) = blockOp'.age
                            /\ p.sig = v.signature
       /\ blk.some => blk'.some /\ blk'.payload = blk.payload]_vars

\* C15 witness: Block::new accepted a vote and the block holds the one proof
C15_Witness ==
    /\ blockOp.name = "new"
    /\ blockOp.ok
    /\ blk.some
    /\ Block_total_proofs(blk) = 1
    /\ blk.payload = blockOp.vote.payload

\* Block::new also rejects: a vote whose signature does not verify under
\* pub_key leaves no block
C15_RejectedWitness ==
    /\ blockOp.name = "new"
    /\ ~blockOp.ok
    /\ ~blk.some

\* ------------------------------------------------------------------------
\* Properties of Vote
\* ------------------------------------------------------------------------

\* C16: a vote created by Vote::new(sk, x) validates under a peer id whose
\* public key is the one of sk and is refused under a peer id with any
\* other public key; validation of a vote whose payload cannot be
\* serialised returns false.
C16_ValidatesUnderSignerOnly ==
    voteOp.name = "validate_signature" =>
        /\ curVote.made_by # 0 =>
                voteOp.ok = (voteOp.peer_id.pub_key = curVote.made_by)
        /\ curVote.payload = Unserialisable => voteOp.ok = FALSE

\* C16 witness: a vote made by Vote::new was refused under the other key
C16_Witness ==
    /\ voteOp.name = "validate_signature"
    /\ curVote.made_by # 0
    /\ voteOp.peer_id.pub_key # curVote.made_by
    /\ ~voteOp.ok

\* The other cases of C16 happen too: a vote made by Vote::new validated
\* under its signer's key, and a received vote with an unserialisable payload
\* was refused
C16_AcceptedWitness ==
    /\ voteOp.name = "validate_signature"
    /\ curVote.made_by # 0
    /\ voteOp.peer_id.pub_key = curVote.made_by
    /\ voteOp.ok

C16_UnserialisableWitness ==
    /\ voteOp.name = "validate_signature"
    /\ curVote.payload = Unserialisable
    /\ ~voteOp.ok

\* ------------------------------------------------------------------------
\* Properties of relocation
\* ------------------------------------------------------------------------

\* Bit i (from 1, least significant first) of partial(sigma), the
\* little-endian u64 of the first 8 bytes of sigma, zero-padded
PartialBit(sigma, i) ==
    LET n == ((i - 1) \div 8) + 1
    IN  IF n <= Len(sigma) THEN BitOf(sigma[n], (i - 1) % 8) ELSE 0

\* partial(sigma) = 0
PartialIsZero(sigma) == \A i \in 1..U64_BITS : PartialBit(sigma, i) = 0

\* partial(sigma) mod 2^a = 0: the a lowest bits of partial(sigma) are zero;
\* partial(sigma) < 2^64, so from a = 64 on this is partial(sigma) = 0
PartialDivisibleByPow2(sigma, a) ==
    \A i \in 1..U64_BITS : i <= a => PartialBit(sigma, i) = 0

\* C17: for every age a and every signature sigma, check(a, sigma) is true
\* exactly when partial(sigma) mod 2^a = 0; the result is a function of
\* (a, sigma); for ages of 64 and more it is true only when
\* partial(sigma) = 0.
C17_CheckIsDivisibility ==
    (reloc.op = "check" /\ reloc.done) =>
        /\ reloc.out = PartialDivisibleByPow2(reloc.churn_signature, reloc.age)
        /\ reloc.out = check(reloc.age, reloc.churn_signature)
        /\ (reloc.age >= U64_BITS /\ reloc.out) => PartialIsZero(reloc.churn_signature)

\* check does compute the divisibility below age 64, and from age 64 on
\* whenever partial(sigma) is not u64::MAX
C17_CheckBelowSaturation ==
    (/\ reloc.op = "check"
     /\ reloc.done
     /\ \/ reloc.age < U64_BITS
        \/ \E i \in 1..U64_BITS : PartialBit(reloc.churn_signature, i) = 0) =>
        reloc.out = PartialDivisibleByPow2(reloc.churn_signature, reloc.age)

\* x is lexicographically greater than y
LexGreater(x, y) ==
    \/ \E i \in 1..Len(x) :
            /\ i <= Len(y)
            /\ x[i] > y[i]
            /\ \A j \in 1..(i - 1) : x[j] = y[j]
    \/ /\ Len(x) > Len(y)
       /\ \A j \in 1..Len(y) : x[j] = y[j]

\* C18: select(a, b) returns one of its two arguments: the candidate of
\* higher age, and on equal ages the candidate whose proof signature is
\* lexicographically greater.
C18_SelectPrefersOlderThenGreaterSignature ==
    (reloc.op = "select" /\ reloc.done) =>
        LET a == reloc.a
            b == reloc.b
        IN  /\ reloc.out \in {a, b}
            /\ a.value.age > b.value.age => reloc.out = a
            /\ a.value.age < b.value.age => reloc.out = b
            /\ (/\ a.value.age = b.value.age
                /\ LexGreater(a.proof.signature, b.proof.signature)) => reloc.out = a
            /\ (/\ a.value.age = b.value.age
                /\ LexGreater(b.proof.signature, a.proof.signature)) => reloc.out = b

\* C18 witness: two candidates of one age, and select returned the first
\* one, whose signature is the greater
C18_Witness ==
    /\ reloc.op = "select"
    /\ reloc.done
    /\ reloc.a.value.age = reloc.b.value.age
    /\ reloc.a.value.name # reloc.b.value.name
    /\ LexGreater(reloc.a.proof.signature, reloc.b.proof.signature)
    /\ reloc.out = reloc.a

\* C19 as stated: select(a, b) and select(b, a) denote the same member for
\* all candidates a and b, including when a and b have equal age and equal
\* proof signature.
C19_SelectStableUnderSwap ==
    (reloc.op = "select" /\ reloc.done) =>
        select(reloc.b, reloc.a) = reloc.out

\* Two candidates that select can tell apart, or that are one candidate
Distinguishable(a, b) ==
    \/ a.value.age # b.value.age
    \/ a.proof.signature # b.proof.signature
    \/ a = b

\* C19 amended: select(a, b) and select(b, a) denote the same member
\* whenever a and b differ in age or in proof signature, or are one
\* candidate; for two members of equal age and equal proof signature each
\* call returns its second argument, so the two calls differ.
C19_SelectStableUnlessTied ==
    (reloc.op = "select" /\ reloc.done) =>
        LET a == reloc.a
            b == reloc.b
        IN  IF Distinguishable(a, b)
            THEN select(b, a) = reloc.out
            ELSE reloc.out = b /\ select(b, a) = a

\* C19 witness: two members of equal age whose signatures differ, and both
\* orders of the arguments gave the member with the greater signature
C19_Witness ==
    /\ reloc.op = "select"
    /\ reloc.done
    /\ reloc.a.value.name # reloc.b.value.name
    /\ reloc.a.value.age = reloc.b.value.age
    /\ LexGreater(reloc.b.proof.signature, reloc.a.proof.signature)
    /\ reloc.out = reloc.b
    /\ select(reloc.b, reloc.a) = reloc.b

\* The tie happens: two members of equal age and equal proof signature
C19_TiedWitness ==
    /\ reloc.op = "select"
    /\ reloc.done
    /\ ~Distinguishable(reloc.a, reloc.b)
    /\ reloc.out = reloc.b
    /\ select(reloc.b, reloc.a) = reloc.a

\* The byte-wise XOR of two names
NameXor(m, c) == [i \in 1..XOR_NAME_LEN |-> ByteXor(m[i], c[i])]

\* C20: compute_destination(M, C) is sha3_256 of the byte-wise XOR of M and
\* C, and compute_destination(M, C) = compute_destination(C, M).
C20_DestinationIsHashOfXor ==
    (reloc.op = "compute_destination" /\ reloc.done) =>
        LET m == reloc.relocating_name
            c == reloc.churn_name
        IN  /\ \A i \in 1..XOR_NAME_LEN : reloc.out[2][i] = NameXor(m, c)[i]
            /\ Len(reloc.out[2]) = XOR_NAME_LEN
            /\ reloc.out = sha3_256(reloc.out[2])
            /\ reloc.out = compute_destination(c, m)

\* C20 witness: the destination of two names that differ in every byte,
\* none of them a zero byte
C20_Witness ==
    /\ reloc.op = "compute_destination"
    /\ reloc.done
    /\ \A i \in 1..XOR_NAME_LEN :
            /\ reloc.relocating_name[i] # reloc.churn_name[i]
            /\ reloc.relocating_name[i] # 0
            /\ reloc.churn_name[i] # 0
    /\ reloc.out = compute_destination(reloc.churn_name, reloc.relocating_name)

C21_InvalidMessageWitness ==
    /\ reloc.op = "SignedRelocateDetails::new"
    /\ reloc.done
    /\ ~reloc.out.ok

C21_DecodeErrorWitness ==
    /\ reloc.op = "SignedRelocateDetails::deserialize"
    /\ reloc.done
    /\ reloc.bytes.wellformed
    /\ ~reloc.out.ok

\* C22: verify_identity(new_id) returns true exactly when
\* signature_of_new_id_with_old_id is a signature over the serialised new_id
\* under the public key of the old id named in the relocate details; so a
\* payload built by RelocatePayload::new(details, new_id, old_full_id)
\* verifies for new_id when old_full_id is the identity of details.pub_id,
\* and fails for any other new id and when another old identity signed.
C22_VerifyIdentity ==
    (reloc.op = "verify_identity" /\ reloc.done /\ ~reloc.out.panic) =>
        LET signature == reloc.self.signature_of_new_id_with_old_id
            old_pub_id == reloc.self.details.signed_msg.variant.details.pub_id
        IN  /\ reloc.out.value =
                    (/\ reloc.new_pub_id \in PublicIds
                     /\ signature.signer = old_pub_id
                     /\ signature.data = <<"PublicId", reloc.new_pub_id>>)
            /\ reloc.built.by_new =>
                    reloc.out.value =
                        (/\ reloc.new_pub_id = reloc.built.new_pub_id
                         /\ reloc.built.old_full_id = old_pub_id)

\* C22 witness: a payload that RelocatePayload::new built with the identity
\* named in the details verifies for its new id
C22_Witness ==
    /\ reloc.op = "verify_identity"
    /\ reloc.done
    /\ reloc.built.by_new
    /\ reloc.built.old_full_id = reloc.self.details.signed_msg.variant.details.pub_id
    /\ reloc.new_pub_id = reloc.built.new_pub_id
    /\ reloc.out.value

\* The refusals of C22 happen: another new id, and another old identity
C22_OtherNewIdWitness ==
    /\ reloc.op = "verify_identity"
    /\ reloc.done
    /\ reloc.built.by_new
    /\ reloc.built.old_full_id = reloc.self.details.signed_msg.variant.details.pub_id
    /\ reloc.new_pub_id \in PublicIds
    /\ reloc.new_pub_id # reloc.built.new_pub_id
    /\ ~reloc.out.value

C22_OtherOldIdWitness ==
    /\ reloc.op = "verify_identity"
    /\ reloc.done
    /\ reloc.built.by_new
    /\ reloc.built.old_full_id # reloc.self.details.signed_msg.variant.details.pub_id
    /\ reloc.new_pub_id = reloc.built.new_pub_id
    /\ ~reloc.out.value

\* The entries next() chooses from: not sending, attempts left
IdleWithAttemptsLeft(i) ==
    /\ ~recipients[i].sending
    /\ recipients[i].attempt < RESEND_MAX_ATTEMPTS

\* C26: each time the call dispatches a send, the chosen recipient is not
\* sending, has attempt < RESEND_MAX_ATTEMPTS and has the lowest attempt
\* count among the recipients that are idle with attempts left; only that
\* recipient's entry changes (attempt + 1, sending set).
C26_DispatchPicksLowestIdle ==
    [][(sends' # sends) =>
        \E i \in DOMAIN recipients :
            /\ IdleWithAttemptsLeft(i)
            /\ \A j \in DOMAIN recipients :
                    IdleWithAttemptsLeft(j) => recipients[i].attempt <= recipients[j].attempt
            /\ recipients' = [recipients EXCEPT ![i] =
                                [@ EXCEPT !.attempt = @ + 1, !.sending = TRUE]]
            /\ sends' = [sends EXCEPT ![recipients[i].addr] = @ + 1]]_vars

\* C26 witness: a recipient is being retried for the second time while an
\* earlier recipient of the list is idle after as many attempts
C26_Witness ==
    /\ pc = "loop"
    /\ \E i, j \in DOMAIN recipients :
        /\ j < i
        /\ recipients[i].sending
        /\ recipients[i].attempt = 2
        /\ ~recipients[j].sending
        /\ recipients[j].attempt = 2

\* The address whose send completed in this step
Completed(a) == tasks'[a] = tasks[a] - 1

\* C27 (as claimed): on completion of a send, success removes that
\* recipient from the pool, leaves the other entries as they are and counts
\* exactly one success, and an address that received the message is never
\* sent to again; failure clears the sending flag of that recipient, which
\* was set, and changes nothing else.
C27_CompletionEffects ==
    [][/\ \A a \in Addrs : (Completed(a) /\ successes' = successes + 1) =>
            /\ remaining' = remaining - 1
            /\ \E i \in DOMAIN recipients :
                /\ recipients[i].addr = a
                /\ recipients[i].sending
                /\ recipients' = SwapRemove(recipients, i)
       /\ \A a \in got : sends'[a] = sends[a]
       /\ \A a \in Addrs : (Completed(a) /\ failures' = failures + 1) =>
            /\ remaining' = remaining
            /\ successes' = successes
            /\ \E i \in DOMAIN recipients :
                /\ recipients[i].addr = a
                /\ recipients[i].sending
                /\ recipients' = [recipients EXCEPT ![i] = [@ EXCEPT !.sending = FALSE]]
      ]_vars

\* C27 restricted to recipients lists without a repeated address
C27_DistinctRecipients ==
    [][NoDuplicates(targets) =>
        /\ \A a \in Addrs : (Completed(a) /\ successes' = successes + 1) =>
            /\ remaining' = remaining - 1
            /\ \E i \in DOMAIN recipients :
                /\ recipients[i].addr = a
                /\ recipients[i].sending
                /\ recipients' = SwapRemove(recipients, i)
        /\ \A a \in got : sends'[a] = sends[a]
        /\ \A a \in Addrs : (Completed(a) /\ failures' = failures + 1) =>
            /\ remaining' = remaining
            /\ successes' = successes
            /\ \E i \in DOMAIN recipients :
                /\ recipients[i].addr = a
                /\ recipients[i].sending
                /\ recipients' = [recipients EXCEPT ![i] = [@ EXCEPT !.sending = FALSE]]
      ]_vars

\* ------------------------------------------------------------------------
\* Properties of Inner::send
\* ------------------------------------------------------------------------

\* The sender awaits the network: connect_to or send_uni
InNetworkAwait(t) == sender[t].pc \in {"connect_to", "send_uni"}

\* C28: the lock of the connection cache is never held across a network
\* await: a sender that awaits connect_to or send_uni does not hold it, it is
\* held only between its acquisition and the lookup or the insertion; and a
\* failed connect leaves the cache as it was.
C28_NoLockAcrossNetworkAwait ==
    [][/\ \A t \in Senders :
            /\ InNetworkAwait(t)' => lock' # t
            /\ lock' = t => sender'[t].pc \in {"get", "insert"}
       /\ \A t \in Senders :
            (sender[t].pc = "connect_to" /\ sender'[t].result = "ConnectErr") =>
                node_conns' = node_conns]_vars

\* C28 witness: one sender awaits its connect while another one holds the
\* lock for its own lookup
C28_Witness ==
    \E t, u \in Senders :
        /\ sender[t].pc = "connect_to"
        /\ sender[u].pc = "get"
        /\ lock = u

\* C28 witness: a connect failed and its recipient is not in the cache
C28_FailedConnectWitness ==
    \E t \in Senders :
        /\ sender[t].result = "ConnectErr"
        /\ node_conns[sender[t].recipient] = NoConn

\* The sender has written its message on a connection
Wrote(t) == sender[t].pc = "done" /\ sender[t].result = "Ok"

\* C29 (as claimed): the model has no eviction; all sends to an address
\* write on the same connection, under every interleaving, and an existing
\* cache entry is never replaced by another connection.
C29_OneConnectionPerAddress ==
    [][/\ \A a \in Peers :
            node_conns[a] # NoConn => node_conns'[a] = node_conns[a]
       /\ \A t, u \in Senders :
            (Wrote(t)' /\ Wrote(u)' /\ sender'[t].recipient = sender'[u].recipient)
                => sender'[t].conn = sender'[u].conn]_vars

\* What holds of C29: a send that finds its recipient in the cache writes on
\* the cached connection and leaves the cache as it is
C29_CachedConnectionIsUsed ==
    [][\A t \in Senders :
        (sender[t].pc = "get" /\ node_conns[sender[t].recipient] # NoConn) =>
            /\ sender'[t].pc \in {"get", "send_uni"}
            /\ sender'[t].pc = "send_uni" =>
                    sender'[t].conn = node_conns[sender[t].recipient]
            /\ node_conns'[sender[t].recipient] = node_conns[sender[t].recipient]]_vars

\* ------------------------------------------------------------------------
\* Properties of the relocation check, continued
\* ------------------------------------------------------------------------

\* The number of trailing zero bits of partial(sigma), for partial(sigma) # 0
TrailingZeros(sigma) ==
    CHOOSE t \in 0..(U64_BITS - 1) :
        /\ PartialBit(sigma, t + 1) = 1
        /\ \A i \in 1..t : PartialBit(sigma, i) = 0

\* partial(sigma) = u64::MAX
PartialIsMax(sigma) == \A i \in 1..U64_BITS : PartialBit(sigma, i) = 1

\* C30 (as claimed): check is monotone in age: when check(a, sigma) is true,
\* check(a', sigma) is true for every a' < a; age 0 always passes; for
\* partial(sigma) # 0 the ages that pass are exactly 0..=t, t the number of
\* trailing zero bits of partial(sigma).
C30_CheckMonotoneInAge ==
    (reloc.op = "check" /\ reloc.done) =>
        /\ reloc.age = 0 => reloc.out
        /\ reloc.out =>
                \A a \in CheckAges : a < reloc.age => check(a, reloc.churn_signature)
        /\ ~PartialIsZero(reloc.churn_signature) =>
                reloc.out = (reloc.age <= TrailingZeros(reloc.churn_signature))

\* What holds of C30: the same for every signature whose partial is not
\* u64::MAX, and for every signature at the ages below 64
C30_MonotoneBelowSaturation ==
    (/\ reloc.op = "check"
     /\ reloc.done
     /\ reloc.age < U64_BITS \/ ~PartialIsMax(reloc.churn_signature)) =>
        /\ reloc.age = 0 => reloc.out
        /\ reloc.out =>
                \A a \in CheckAges : a < reloc.age => check(a, reloc.churn_signature)
        /\ ~PartialIsZero(reloc.churn_signature) =>
                reloc.out = (reloc.age <= TrailingZeros(reloc.churn_signature))

\* The example of C30: partial(sigma) = 0x08 passes at age 3 and fails at 4
C30_ExampleWitness ==
    /\ reloc.op = "check"
    /\ reloc.done
    /\ reloc.churn_signature = SignatureBytes(SIG_SIZE, 0, 8, 0)
    /\ reloc.age = 3
    /\ reloc.out
    /\ ~check(4, reloc.churn_signature)

\* ------------------------------------------------------------------------
\* Properties of Routing
\* ------------------------------------------------------------------------

\* The events that Routing::new sent itself, in order
NewEvents == SelectSeq(events, LAMBDA e : e.cause = "new")

\* The steps of Routing::new done so far
StepsDone == {NewSteps(config_first)[k] : k \in 1..construction.step}

\* C23: Routing::new with first == true does not bootstrap and sends exactly
\* Connected(First) and then PromotedToElder, once each, before any event
\* caused by an inbound message; with first == false it sends Connected only
\* once the bootstrap has succeeded and no PromotedToElder; a construction
\* that failed has sent nothing.
C23_ConstructionEvents ==
    /\ \A i, j \in DOMAIN events :
            (i < j /\ events[j].cause = "new") => events[i].cause = "new"
    /\ construction.result # "Ok" => \A i \in DOMAIN events : events[i].cause = "new"
    /\ config_first =>
            /\ StepsDone \cap {"Comm::from_bootstrapping", "bootstrap::infant"} = {}
            /\ construction.result = "Ok" =>
                    /\ Len(NewEvents) = 2
                    /\ NewEvents[1].event = "Connected(First)"
                    /\ NewEvents[2].event = "PromotedToElder"
    /\ ~config_first =>
            /\ NewEvents # <<>> => "bootstrap::infant" \in StepsDone
            /\ \A i \in DOMAIN NewEvents : NewEvents[i].event # "PromotedToElder"
            /\ construction.result = "Ok" =>
                    /\ Len(NewEvents) = 1
                    /\ NewEvents[1].event \in {"Connected(First)", "Connected(Relocate)"}
    /\ construction.result = "Err" => events = <<>>

\* C23 witness: the first node was built and a handled command has sent an
\* event after the two of the construction
C23_Witness ==
    /\ config_first
    /\ construction.result = "Ok"
    /\ Len(events) = 3
    /\ events[3].cause = "message"

\* C23 witness: a bootstrapped node was built
C23_BootstrappedWitness ==
    /\ ~config_first
    /\ construction.result = "Ok"
    /\ Len(events) = 1

\* C23 witness: the bootstrap failed
C23_FailedWitness ==
    /\ ~config_first
    /\ construction.result = "Err"
    /\ NewSteps(config_first)[construction.step + 1] = "bootstrap::infant"

\* C24: a state-reading method reads the node state under one acquisition
\* of the state lock, so what it returns is what it returns for one of the
\* states the node has held, under every interleaving with the handlers.
C24_AtomicSnapshot ==
    /\ reader.pc \in {"sort", "done"} =>
            [elders |-> reader.elders, members |-> reader.members] \in held
    /\ reader.pc = "done" =>
            \E st \in held : reader.out = ReaderResult(reader.op, st, reader.name)

\* C24 witness: the method has returned what it read before a handler
\* changed both the elders and the members
C24_Witness ==
    /\ reader.pc = "done"
    /\ reader.op = "our_adults"
    /\ reader.elders # state.elders
    /\ reader.members # state.members

\* C24 witness: the method waits for the lock that a handler holds between
\* its two writes
C24_WaitsWitness ==
    /\ reader.pc = "lock"
    /\ stateLock = "handler"
    /\ handler.pc = "members"
    /\ state.elders # handler.before.elders

\* lhs is closer to name than rhs
Closer(name, lhs, rhs) == LexGreater(xor(rhs, name), xor(lhs, name))

\* out holds every name of the set once, closest to name first
SortedByDistance(out, names, name) ==
    /\ {out[i] : i \in DOMAIN out} = names
    /\ Len(out) = Cardinality(names)
    /\ \A i, j \in DOMAIN out : i < j => Closer(name, out[i], out[j])

\* The state that the method at hand has read
Snapshot == [elders |-> reader.elders, members |-> reader.members]

\* C25 (as claimed): our_adults_sorted_by_distance_to(name) returns an empty
\* vector when the node is not an elder or the section has no adults, and
\* otherwise the adults of the section, each once, closest to name first.
C25_EmptyUnlessElder ==
    (reader.op = "our_adults_sorted_by_distance_to" /\ reader.pc = "done") =>
        IF ~Approved_is_elder(Snapshot) \/ Section_adults(Snapshot) = {}
        THEN reader.out = <<>>
        ELSE SortedByDistance(reader.out, Section_adults(Snapshot), reader.name)

\* What holds of C25: the adults of the section, each once, closest first,
\* whether the node is an elder or not
C25_SortedAdults ==
    (reader.op = "our_adults_sorted_by_distance_to" /\ reader.pc = "done") =>
        SortedByDistance(reader.out, Section_adults(Snapshot), reader.name)

\* The case of C25_SortedAdults: two adults, returned in the order opposite
\* to the order of their names
C25_SortedWitness ==
    /\ reader.op = "our_adults_sorted_by_distance_to"
    /\ reader.pc = "done"
    /\ Len(reader.out) = 2
    /\ LexGreater(reader.out[1], reader.out[2])

\* ------------------------------------------------------------------------
\* Properties of Vote::proof
\* ------------------------------------------------------------------------

\* The blocks over a payload (node.rs:46-49) whose proofs all validate
\* against it: the blocks that Block::new and add_proof can build
BlocksOver(payload) ==
    { [payload |-> payload, proofs |-> S, some |-> TRUE] :
        S \in SUBSET {p \in Proofs : Proof_validate_signature(p, payload)} }

\* C31: vote.proof(peer_id) is Err(FailedSignature) exactly when the vote
\* does not validate under peer_id's key; otherwise it is Ok of a Proof that
\* carries that peer_id and exactly the vote's signature, the proof validates
\* against the vote's payload, and add_proof accepts it into every block over
\* that payload that holds no equal proof yet; the outcome is the same for
\* every age of a peer id with the same public key
C31_ProofFromVote ==
    voteOp.name = "proof" =>
        /\ voteOp.ok = Vote_validate_signature(curVote, voteOp.peer_id)
        /\ voteOp.ok = /\ serialise(curVote.payload).ok
                       /\ curVote.signature.signer = voteOp.peer_id.pub_key
                       /\ curVote.signature.data = serialise(curVote.payload).data
        /\ voteOp.ok =>
              /\ voteOp.proof.peer_id = voteOp.peer_id
              /\ voteOp.proof.sig = curVote.signature
              /\ Proof_validate_signature(voteOp.proof, curVote.payload)
              /\ \A b \in BlocksOver(curVote.payload) :
                    (\A q \in b.proofs : ~Proof_eq(q, voteOp.proof)) =>
                        LET r == Block_add_proof(b, voteOp.proof) IN
                        /\ r.ok
                        /\ r.block.proofs = b.proofs \cup {voteOp.proof}
                        /\ r.block.payload = curVote.payload
        /\ \A age \in Ages :
              LET other == Vote_proof(curVote, PeerId_new(age, voteOp.peer_id.pub_key)) IN
              /\ other.ok = voteOp.ok
              /\ other.ok => other.proof.sig = voteOp.proof.sig

\* C31 witness: a vote made by Vote::new gave a proof under its signer's key
\* with the greatest age, and a block over the payload that already holds a
\* proof of another key accepts it
C31_Witness ==
    /\ voteOp.name = "proof"
    /\ voteOp.ok
    /\ curVote.made_by = voteOp.peer_id.pub_key
    /\ voteOp.peer_id.age = MaxAge
    /\ \E b \in BlocksOver(curVote.payload) :
          /\ b.proofs # {}
          /\ \A q \in b.proofs : Proof_key(q) # Proof_key(voteOp.proof)
          /\ Block_add_proof(b, voteOp.proof).ok

\* The other cases of C31 happen too: proof() failed under a key that is not
\* the signer's, failed for a received vote whose payload does not serialise,
\* and succeeded for the same key with the least age
C31_FailedWitness ==
    /\ voteOp.name = "proof"
    /\ ~voteOp.ok
    /\ curVote.made_by # 0
    /\ voteOp.peer_id.pub_key # curVote.made_by

C31_UnserialisableWitness ==
    /\ voteOp.name = "proof"
    /\ ~voteOp.ok
    /\ curVote.payload = Unserialisable

C31_YoungestWitness ==
    /\ voteOp.name = "proof"
    /\ voteOp.ok
    /\ voteOp.peer_id.age = 0

====
